---- MODULE Spec2Model ----
(***************************************************************************)
(* A model of the geo-content build script of the landing-page repository *)
(* (packages/build/build.ts): the string transformations applied to HTML  *)
(* (replaceRootDiv, injectCssLink, the FAQ schema), the directory copy    *)
(* and the main build pipeline over a small file system.                  *)
(*                                                                         *)
(* Text is modelled character by character: a JavaScript string is a TLA+ *)
(* string, and every regular expression of the script is translated into  *)
(* an operator that finds the same match the backtracking matcher finds.  *)
(* Searches halve their range instead of stepping through it, and values  *)
(* used several times are handed to a helper as a parameter: both keep    *)
(* the evaluation shallow and small.                                       *)
(***************************************************************************)
EXTENDS Integers, Sequences, FiniteSets, TLC

VARIABLES
  \* --- the string functions called on their own (SpecHtml) ---
  doc,          \* the HTML string the functions are applied to
  prev,         \* the HTML string before the last call
  elementId,    \* argument elementId of replaceRootDiv
  replacement,  \* argument replacement of replaceRootDiv
  cssPath,      \* argument cssPath of injectCssLink
  calls,        \* the calls made so far, oldest first
  \* --- the build pipeline (Spec) ---
  fs,           \* the file system: path -> node
  cfg,          \* geo.json
  pc,           \* the position of main
  retryCount,   \* main's retryCount
  delays,       \* the waits of the retry loop in ms, oldest first
  replIdx,      \* index of the next entry of REPLACEMENTS
  exitCode,     \* -1 while running, 0 on normal return, 1 after process.exit(1)
  steps,        \* the pipeline steps executed so far, oldest first
  warnings,     \* the console.warn calls of steps 4 and 5, oldest first
  reports,      \* the console.log calls of steps 5 and 6 about the FAQ schema
  lastError,    \* the code of the error the last step threw, "" when none
  \* --- the wait-list hook and form (SpecHook, SpecField) ---
  wlLoading,    \* useWaitlist: state loading
  wlSuccess,    \* useWaitlist: state success
  wlError,      \* useWaitlist: state error, <<>> for null, <<e>> for an Error e
  wlView,       \* the values useWaitlist returned to the last render
  wlCalls,      \* the submitWaitlist calls made so far, oldest first
  wlSettled,    \* the indexes of the settled calls, in the order they settled
  requests,     \* the e-mails sent to the Cloud Function, oldest first
  fieldValue,   \* WaitlistField: the value of the e-mail input
  formSubmits,  \* WaitlistField: the number of submit events handled
  formError,    \* WaitlistField: errors.email, <<>> when there is none
  onSubmitProp, \* WaitlistField: whether the onSubmit prop is given
  onSubmitCalls, \* WaitlistField: the arguments onSubmit was called with
  \* --- the cookie banner (SpecConsent) ---
  ccPhase,      \* "new", "mounted" or "unmounted"
  storage,      \* localStorage item cookie-consent, <<>> when it is not set
  storedAtMount, \* the item as the mount effect read it
  hasConsent,   \* state hasConsent: <<>> for null, <<b>> for the boolean b
  isVisible,    \* state isVisible
  ccRender,     \* the state the last committed render was made from
  analyticsInitializedRef,   \* analyticsInitializedRef.current
  analyticsFallbackTimerRef, \* analyticsFallbackTimerRef.current is a timer id
  bannerTimer,  \* the 1 s timer: <<>> when not pending, <<due>> when pending
  fallbackTimer, \* the 8 s timer, likewise
  bannerCleanup, \* the mount effect returned its cleanup function
  fallbackCleanup, \* the last run of the fallback effect returned one
  analyticsCalls, \* the arguments of the initializeAnalytics calls, oldest first
  analyticsStorage, \* consent setting analytics_storage, "unset" before setConsent
  clicked,      \* the buttons clicked since mount
  renderLagged, \* a second has passed while a render was outstanding
  now,          \* seconds since mount
  \* --- the hero video (SpecHero) ---
  hvPhase,      \* "new" before the component is mounted, then "mounted"
  currentResolution,    \* state currentResolution: <<>> for null, <<r>>
  attemptedResolutions, \* state attemptedResolutions: a set of src
  isLoading,    \* state isLoading
  hasError,     \* state hasError
  canAutoplay,  \* state canAutoplay
  hvRendered,   \* the state the last committed render was made from
  hvEffectDone, \* the effects of the last committed render have run
  hvListeners,  \* the render whose handlers listen on the video element
  loadTimeout,  \* the pending 1 s timer: <<>> or the render that set it
  media,        \* how far the video element in the document has loaded
  hvAttempts,   \* the sources given to a video element, oldest first
  hvLog         \* the console messages about fallbacks, oldest first

htmlVars == <<doc, prev, elementId, replacement, cssPath, calls>>
buildVars == <<fs, cfg, pc, retryCount, delays, replIdx, exitCode, steps, warnings, reports,
              lastError>>
waitlistVars == <<wlLoading, wlSuccess, wlError, wlView, wlCalls, wlSettled,
                  requests, fieldValue, formSubmits, formError, onSubmitProp,
                  onSubmitCalls>>
consentVars == <<ccPhase, storage, storedAtMount, hasConsent, isVisible, ccRender,
                 analyticsInitializedRef, analyticsFallbackTimerRef, bannerTimer,
                 fallbackTimer, bannerCleanup, fallbackCleanup, analyticsCalls,
                 analyticsStorage, clicked, renderLagged, now>>
heroVars == <<hvPhase, currentResolution, attemptedResolutions, isLoading, hasError,
              canAutoplay, hvRendered, hvEffectDone, hvListeners, loadTimeout, media,
              hvAttempts, hvLog>>
uiVars == <<waitlistVars, consentVars, heroVars>>
vars == <<doc, prev, elementId, replacement, cssPath, calls,
          fs, cfg, pc, retryCount, delays, replIdx, exitCode, steps, warnings, reports,
          lastError,
          uiVars>>

----------------------------------------------------------------------------
(* JavaScript strings *)

\* s.charAt(i - 1): the i-th character, "" outside the string
Ch(s, i) == IF 1 <= i /\ i <= Len(s) THEN SubSeq(s, i, i) ELSE ""

\* s.substring(i - 1): the text from the i-th character on
From(s, i) == SubSeq(s, i, Len(s))

\* s.startsWith(p, i - 1)
StartsWithAt(s, i, p) ==
  /\ i >= 1
  /\ i + Len(p) - 1 <= Len(s)
  /\ SubSeq(s, i, i + Len(p) - 1) = p

\* the first place in lo..hi where p occurs in s, 0 when there is none
RECURSIVE IndexIn(_, _, _, _), IndexElse(_, _, _, _, _)
IndexIn(s, p, lo, hi) ==
  IF lo > hi THEN 0
  ELSE IF lo = hi THEN (IF StartsWithAt(s, lo, p) THEN lo ELSE 0)
  ELSE IndexElse(IndexIn(s, p, lo, (lo + hi) \div 2), s, p, (lo + hi) \div 2 + 1, hi)

IndexElse(left, s, p, lo, hi) == IF left # 0 THEN left ELSE IndexIn(s, p, lo, hi)

\* s.indexOf(p, from - 1) + 1: the first place at or after from where p
\* occurs in s, 0 when there is none
IndexFrom(s, p, from) ==
  IndexIn(s, p, IF from < 1 THEN 1 ELSE from, Len(s) - Len(p) + 1)

\* s.includes(p)
Includes(s, p) == IndexFrom(s, p, 1) # 0

\* s.endsWith(p)
EndsWith(s, p) == Len(p) <= Len(s) /\ StartsWithAt(s, Len(s) - Len(p) + 1, p)

UpperAlpha == "ABCDEFGHIJKLMNOPQRSTUVWXYZ"
LowerAlpha == "abcdefghijklmnopqrstuvwxyz"
DigitChars == "0123456789"

UpperSet == {SubSeq(UpperAlpha, i, i) : i \in 1..26}
LowerSet == {SubSeq(LowerAlpha, i, i) : i \in 1..26}
DigitSet == {SubSeq(DigitChars, i, i) : i \in 1..10}

\* the character class [a-zA-Z]
LetterSet == UpperSet \cup LowerSet

\* the character class [a-zA-Z0-9]
AlnumSet == LetterSet \cup DigitSet

\* the character class \s (the ASCII part of it)
WhiteSet == {" ", "\n", "\t", "\r", "\f"}

\* the character class ["']
QuoteSet == {"\"", "'"}

\* the canonical form of a character under the i flag
LowerOf ==
  [c \in UpperSet |->
     SubSeq(LowerAlpha, CHOOSE i \in 1..26 : SubSeq(UpperAlpha, i, i) = c,
                        CHOOSE i \in 1..26 : SubSeq(UpperAlpha, i, i) = c)]

LowerCh(c) == IF c \in UpperSet THEN LowerOf[c] ELSE c

\* the text as the i flag compares it
RECURSIVE ToLower(_)
ToLower(s) ==
  IF Len(s) <= 1 THEN LowerCh(s)
  ELSE ToLower(SubSeq(s, 1, Len(s) \div 2)) \o ToLower(SubSeq(s, Len(s) \div 2 + 1, Len(s)))

DigitVal(c) == CHOOSE n \in 0..9 : SubSeq(DigitChars, n + 1, n + 1) = c

\* the number of "$" that stand immediately before position i of t
RECURSIVE DollarsBefore(_, _)
DollarsBefore(t, i) == IF Ch(t, i - 1) = "$" THEN 1 + DollarsBefore(t, i - 1) ELSE 0

\* position i of the replacement text t starts a substitution pattern: it
\* holds a "$" that the left-to-right scan does not consume as the second
\* character of "$$"
ActiveDollar(t, i) == Ch(t, i) = "$" /\ DollarsBefore(t, i) % 2 = 0

\* the number of characters after a "$" that belong to its pattern, c and d
\* being the two characters after it and m the number of capture groups
WidthOf(c, d, m) ==
  IF c \in {"$", "&", "'"} THEN 1
  ELSE IF c \in DigitSet /\ d \in DigitSet
          /\ 10 * DigitVal(c) + DigitVal(d) \in 1..m THEN 2
  ELSE IF c \in DigitSet /\ DigitVal(c) \in 1..m THEN 1
  ELSE 0

PatternWidth(t, i, m) == WidthOf(Ch(t, i + 1), Ch(t, i + 2), m)

\* what the pattern "$" c d stands for
TextOf(c, d, mt, after, groups) ==
  IF c = "$" THEN "$"
  ELSE IF c = "&" THEN mt
  ELSE IF c = "'" THEN after
  ELSE IF c \in DigitSet /\ d \in DigitSet
          /\ 10 * DigitVal(c) + DigitVal(d) \in 1..Len(groups)
       THEN groups[10 * DigitVal(c) + DigitVal(d)]
  ELSE IF c \in DigitSet /\ DigitVal(c) \in 1..Len(groups) THEN groups[DigitVal(c)]
  ELSE "$"

\* what position i of the replacement text contributes to the result
ExpandAt(t, i, mt, after, groups) ==
  IF ActiveDollar(t, i) THEN TextOf(Ch(t, i + 1), Ch(t, i + 2), mt, after, groups)
  ELSE IF \/ ActiveDollar(t, i - 1) /\ PatternWidth(t, i - 1, Len(groups)) >= 1
          \/ ActiveDollar(t, i - 2) /\ PatternWidth(t, i - 2, Len(groups)) = 2
       THEN ""
  ELSE Ch(t, i)

RECURSIVE ExpandIn(_, _, _, _, _, _)
ExpandIn(t, lo, hi, mt, after, groups) ==
  IF lo > hi THEN ""
  ELSE IF lo = hi THEN ExpandAt(t, lo, mt, after, groups)
  ELSE ExpandIn(t, lo, (lo + hi) \div 2, mt, after, groups)
         \o ExpandIn(t, (lo + hi) \div 2 + 1, hi, mt, after, groups)

\* GetSubstitution: the text String.prototype.replace puts in place of a
\* match when the replacement is the string t: $$ is a dollar, $& the match
\* mt, $' the text after it, $n and $nn the n-th capture (an unset capture
\* is empty); any other $ stands for itself. (The pattern for the text
\* before the match is a dollar and a grave accent; a TLA+ string cannot
\* hold that character, so no text of this model contains the pattern.)
Expand(t, mt, after, groups) == ExpandIn(t, 1, Len(t), mt, after, groups)

\* s with s[start..end], a match of a pattern with the captures groups,
\* replaced as the replacement string t says
Splice(s, start, end, t, groups) ==
  SubSeq(s, 1, start - 1)
    \o Expand(t, SubSeq(s, start, end), From(s, end + 1), groups)
    \o From(s, end + 1)

----------------------------------------------------------------------------
(* replaceRootDiv *)

\* the length of the longest run of [a-zA-Z0-9] that starts at i
RECURSIVE NameRun(_, _)
NameRun(s, i) == IF Ch(s, i) \in AlnumSet THEN 1 + NameRun(s, i + 1) ELSE 0

\* \s+id=["']${elementId}["'] matches at k, ls and lid being the text and
\* the id as the i flag compares them
HasIdAt(ls, lid, k) ==
  /\ Ch(ls, k) \in WhiteSet
  /\ StartsWithAt(ls, k + 1, "id=")
  /\ Ch(ls, k + 4) \in QuoteSet
  /\ StartsWithAt(ls, k + 5, lid)
  /\ Ch(ls, k + 5 + Len(lid)) \in QuoteSet

\* \s+id=["']${elementId}["'] matches somewhere in attrs (the i flag on)
HasIdAttr(attrs, id) == \E k \in 1..Len(attrs) : HasIdAt(ToLower(attrs), ToLower(id), k)

NoMatch == [ok |-> FALSE, start |-> 0, end |-> 0, groups |-> <<>>]

\* The match of
\*   <([a-zA-Z][a-zA-Z0-9]*)([^>]*\s+id=["']ID["'][^>]*)>(.*?)</\1>   (flags gis)
\* that starts at i, as the backtracking matcher finds it: the opening tag
\* ends at the first ">" (gt); group 1 is tried from the whole tag name down
\* to its first letter (n characters), and for each the lazy group 3 ends
\* at the first closing tag (close) with that name; ls is the text as the
\* i flag compares it.
RECURSIVE RootMatchName(_, _, _, _, _), RootMatchClose(_, _, _, _, _, _)
RootMatchName(s, ls, i, gt, n) ==
  IF n = 0 THEN NoMatch
  ELSE RootMatchClose(s, ls, i, gt, n,
                      IndexFrom(ls, "</" \o SubSeq(ls, i + 1, i + n) \o ">", gt + 1))

RootMatchClose(s, ls, i, gt, n, close) ==
  IF close # 0
  THEN [ok |-> TRUE,
        start |-> i,
        end |-> close + n + 2,
        groups |-> <<SubSeq(s, i + 1, i + n),
                     SubSeq(s, i + n + 1, gt - 1),
                     SubSeq(s, gt + 1, close - 1)>>]
  ELSE RootMatchName(s, ls, i, gt, n - 1)

RootMatchTag(s, id, i, gt) ==
  IF gt # 0 /\ HasIdAttr(SubSeq(s, i + 1, gt - 1), id)
  THEN RootMatchName(s, ToLower(s), i, gt, NameRun(s, i + 1))
  ELSE NoMatch

RootMatchAt(s, id, i) ==
  IF Ch(s, i) = "<" /\ Ch(s, i + 1) \in LetterSet
  THEN RootMatchTag(s, id, i, IndexFrom(s, ">", i))
  ELSE NoMatch

\* the leftmost match that starts in lo..hi
RECURSIVE RootMatchIn(_, _, _, _), RootMatchElse(_, _, _, _, _)
RootMatchIn(s, id, lo, hi) ==
  IF lo > hi THEN NoMatch
  ELSE IF lo = hi THEN RootMatchAt(s, id, lo)
  ELSE RootMatchElse(RootMatchIn(s, id, lo, (lo + hi) \div 2),
                     s, id, (lo + hi) \div 2 + 1, hi)

RootMatchElse(left, s, id, lo, hi) == IF left.ok THEN left ELSE RootMatchIn(s, id, lo, hi)

\* the leftmost match at or after from
RootMatchFrom(s, id, from) == RootMatchIn(s, id, from, Len(s))

\* html.replace(regex, t) under the g flag, from position from on; m is the
\* leftmost match at or after from
RECURSIVE ReplaceRootFrom(_, _, _, _), ReplaceRootWith(_, _, _, _, _)
ReplaceRootFrom(s, id, t, from) == ReplaceRootWith(RootMatchFrom(s, id, from), s, id, t, from)

ReplaceRootWith(m, s, id, t, from) ==
  IF ~m.ok THEN From(s, from)
  ELSE SubSeq(s, from, m.start - 1)
         \o Expand(t, SubSeq(s, m.start, m.end), From(s, m.end + 1), m.groups)
         \o ReplaceRootFrom(s, id, t, m.end + 1)

NoSection == [ok |-> FALSE, attrs |-> "", content |-> "", closingTag |-> ""]

\* the groups of /^<section(\s[^>]*)?>(.*)(<\/section>)$/s when the opening
\* tag ends at open
SectionGroups(r, open) ==
  IF EndsWith(r, "</section>") /\ Len(r) - 10 >= open
  THEN [ok |-> TRUE,
        attrs |-> SubSeq(r, 9, open - 1),
        content |-> SubSeq(r, open + 1, Len(r) - 10),
        closingTag |-> "</section>"]
  ELSE NoSection

\* replacement.match(/^<section(\s[^>]*)?>(.*)(<\/section>)$/s):
\* [ok, attrs (group 1), content (group 2), closingTag (group 3)]
SectionMatch(r) ==
  IF ~StartsWithAt(r, 1, "<section") THEN NoSection
  ELSE IF Ch(r, 9) = ">" THEN SectionGroups(r, 9)
  ELSE IF Ch(r, 9) \in WhiteSet /\ IndexFrom(r, ">", 9) # 0
       THEN SectionGroups(r, IndexFrom(r, ">", 9))
  ELSE NoSection

\* the smaller of two places, 0 standing for no place
FirstOf(a, b) == IF a = 0 THEN b ELSE IF b = 0 THEN a ELSE IF a < b THEN a ELSE b

\* the first character of ["'] at or after from
QuoteFrom(r, from) == FirstOf(IndexFrom(r, "\"", from), IndexFrom(r, "'", from))

NoClass == [ok |-> FALSE, start |-> 0, end |-> 0, value |-> ""]

\* the first match of /class=["']([^"']*)["']/ at or after from:
\* [ok, start, end, value (group 1)]; i is the next place of "class=" and q
\* the first quote after the one that opens the value
RECURSIVE ClassMatchFrom(_, _), ClassMatchAt(_, _), ClassMatchQuote(_, _, _)
ClassMatchFrom(r, from) == ClassMatchAt(r, IndexFrom(r, "class=", from))

ClassMatchAt(r, i) ==
  IF i = 0 THEN NoClass
  ELSE IF Ch(r, i + 6) \in QuoteSet THEN ClassMatchQuote(r, i, QuoteFrom(r, i + 7))
  ELSE ClassMatchFrom(r, i + 1)

ClassMatchQuote(r, i, q) ==
  IF q # 0 THEN [ok |-> TRUE, start |-> i, end |-> q, value |-> SubSeq(r, i + 7, q - 1)]
  ELSE ClassMatchFrom(r, i + 1)

AddToClassAt(r, m) ==
  IF ~m.ok THEN r ELSE Splice(r, m.start, m.end, "class=\"$1 geo-root\"", <<m.value>>)

\* replacement.replace(/class=["']([^"']*)["']/, 'class="$1 geo-root"')
AddToClass(r) == AddToClassAt(r, ClassMatchFrom(r, 1))

\* A faulty variant of WithClass: the class is put on the root element of
\* the replacement itself and no <section> is added. C2_WrappedInSection
\* does not hold of it.
WithClassOnRoot(r, sectionMatch) ==
  SubSeq(r, 1, IndexFrom(r, ">", 1) - 1) \o " class=\"geo-root\"" \o From(r, IndexFrom(r, ">", 1))

WithClass(r, sectionMatch) ==
  IF sectionMatch.ok
  THEN IF Includes(sectionMatch.attrs, "class=")
       THEN AddToClass(r)
       ELSE "<section" \o sectionMatch.attrs \o " class=\"geo-root\">"
              \o sectionMatch.content \o sectionMatch.closingTag
  ELSE "<section class=\"geo-root\">" \o r \o "</section>"

\* replacementWithClass: the replacement with the geo-root class added
ReplacementWithClass(r) == WithClass(r, SectionMatch(r))

replaceRootDiv(html, id, r) == ReplaceRootFrom(html, id, ReplacementWithClass(r), 1)

----------------------------------------------------------------------------
(* injectCssLink *)

\* the default value of the parameter cssPath
DefaultCssPath == "./css/geo.css"

\* cssLink
CssLink(path) == "<link href=\"" \o path \o "\" rel=\"stylesheet\" media=\"all\" />"

NoTag == [ok |-> FALSE, start |-> 0, end |-> 0]

OpenTagEnd(i, gt) == IF gt # 0 THEN [ok |-> TRUE, start |-> i, end |-> gt] ELSE NoTag

OpenTagAt(s, tag, i) ==
  IF i = 0 THEN NoTag ELSE OpenTagEnd(i, IndexFrom(s, ">", i + Len(tag)))

\* the first match of /<tag[^>]*>/i, tag being "<head" or "<html": [ok, start, end]
OpenTagMatch(s, tag) == OpenTagAt(s, tag, IndexFrom(ToLower(s), tag, 1))

\* s.replace(re, t) for a regular expression without the g flag and without
\* groups whose first match is s[start..end]
ReplaceFirst(s, start, end, t) == Splice(s, start, end, t, <<>>)

\* the last two strategies: after <html>, else in front of the document
InjectAtHtmlOpen(html, cssLink, htmlOpenMatch) ==
  IF htmlOpenMatch.ok
  THEN ReplaceFirst(html, htmlOpenMatch.start, htmlOpenMatch.end,
                    SubSeq(html, htmlOpenMatch.start, htmlOpenMatch.end)
                      \o "\n<head>\n  " \o cssLink \o "\n</head>")
  ELSE "<head>\n  " \o cssLink \o "\n</head>\n" \o html

\* the second strategy: after <head>
InjectAtHeadOpen(html, cssLink, headOpenMatch) ==
  IF headOpenMatch.ok
  THEN ReplaceFirst(html, headOpenMatch.start, headOpenMatch.end,
                    SubSeq(html, headOpenMatch.start, headOpenMatch.end)
                      \o "\n  " \o cssLink)
  ELSE InjectAtHtmlOpen(html, cssLink, OpenTagMatch(html, "<html"))

\* the first strategy: before </head>; headCloseMatch is the place of the
\* first match of /<\/head>/i, 0 when there is none
InjectAtHeadClose(html, cssLink, headCloseMatch) ==
  IF headCloseMatch # 0
  THEN ReplaceFirst(html, headCloseMatch, headCloseMatch + 6,
                    "  " \o cssLink \o "\n</head>")
  ELSE InjectAtHeadOpen(html, cssLink, OpenTagMatch(html, "<head"))

injectCssLink(html, path) ==
  IF Includes(html, CssLink(path)) THEN html
  ELSE InjectAtHeadClose(html, CssLink(path), IndexFrom(ToLower(html), "</head>", 1))

----------------------------------------------------------------------------
(* The file system.  A path is the sequence of its segments below the     *)
(* workspace root; a node is a directory or a file with its text.         *)

DirNode == [kind |-> "dir", data |-> ""]
FileNode(d) == [kind |-> "file", data |-> d]

\* fs.existsSync(p)
Exists(f, p) == p \in DOMAIN f
\* fs.statSync(p).isDirectory()
IsDir(f, p) == p \in DOMAIN f /\ f[p].kind = "dir"
IsFile(f, p) == p \in DOMAIN f /\ f[p].kind = "file"

\* path.dirname(p)
Parent(p) == SubSeq(p, 1, Len(p) - 1)
\* path.basename(p)
BaseName(p) == p[Len(p)]
\* path.join(p, q)
Join(p, q) == p \o q

IsPrefix(a, p) == Len(a) <= Len(p) /\ SubSeq(p, 1, Len(a)) = a
Ancestors(p) == {SubSeq(p, 1, k) : k \in 0..(Len(p) - 1)}

\* the result of a file-system call: the file system after it and the code
\* of the error it threw ("" when it returned)
Ok(f) == [fs |-> f, err |-> ""]
Fail(f, code) == [fs |-> f, err |-> code]

\* fs.mkdirSync(p, { recursive: true })
MkdirP(f, p) ==
  IF IsFile(f, p) THEN Fail(f, "EEXIST")
  ELSE IF \E a \in Ancestors(p) : IsFile(f, a) THEN Fail(f, "ENOTDIR")
  ELSE Ok([q \in DOMAIN f \cup Ancestors(p) \cup {p} |->
             IF q \in DOMAIN f THEN f[q] ELSE DirNode])

\* fs.writeFileSync(p, d, 'utf8')
WriteFile(f, p, d) ==
  IF IsDir(f, p) THEN Fail(f, "EISDIR")
  ELSE IF \E a \in Ancestors(p) : IsFile(f, a) THEN Fail(f, "ENOTDIR")
  ELSE IF ~IsDir(f, Parent(p)) THEN Fail(f, "ENOENT")
  ELSE Ok([q \in DOMAIN f \cup {p} |-> IF q = p THEN FileNode(d) ELSE f[q]])

\* the error of fs.readFileSync(p, 'utf8'), "" when it returns f[p].data
ReadError(f, p) ==
  IF \E a \in Ancestors(p) : IsFile(f, a) THEN "ENOTDIR"
  ELSE IF ~Exists(f, p) THEN "ENOENT"
  ELSE IF IsDir(f, p) THEN "EISDIR"
  ELSE ""

\* fs.copyFileSync(from, to)
CopyFile(f, from, to) ==
  IF ReadError(f, from) # "" THEN Fail(f, ReadError(f, from))
  ELSE WriteFile(f, to, f[from].data)

\* fs.rmSync(p, { recursive: true, force: true })
RemoveTree(f, p) == [q \in {x \in DOMAIN f : ~IsPrefix(p, x)} |-> f[q]]

\* the entries of directory p
Children(f, p) == {q \in DOMAIN f : Len(q) = Len(p) + 1 /\ IsPrefix(p, q)}

\* every file name of the model, in the order readdirSync lists them
NameOrder ==
  <<"about.html", "build", "css", "dist", "extra.css", "geo", "geo.css",
    "index.html", "landing", "node_modules", "old.html", "package.json",
    "sub", "x.js">>

NameRank(n) == CHOOSE i \in 1..Len(NameOrder) : NameOrder[i] = n

\* fs.readdirSync(p): the names of the entries of p, sorted
RECURSIVE SortNames(_)
SortNames(S) ==
  IF S = {} THEN <<>>
  ELSE LET n == CHOOSE x \in S : \A y \in S : NameRank(x) <= NameRank(y)
       IN  <<n>> \o SortNames(S \ {n})

Readdir(f, p) == SortNames({BaseName(q) : q \in Children(f, p)})

\* path.relative(base, p).split(path.sep): the segments of p relative to base
Relative(base, p) ==
  LET common == CHOOSE k \in 0..Len(base) :
                  /\ IsPrefix(SubSeq(base, 1, k), p)
                  /\ \A j \in (k + 1)..Len(base) : ~IsPrefix(SubSeq(base, 1, j), p)
  IN  [i \in 1..(Len(base) - common) |-> ".."] \o SubSeq(p, common + 1, Len(p))

----------------------------------------------------------------------------
(* The configuration (geo.json) and the paths derived from it *)

WORKSPACE_ROOT == <<>>
SRC_DIR == Join(WORKSPACE_ROOT, cfg.sourceDir)
DIST_DIR == Join(WORKSPACE_ROOT, <<"dist">>)
GEO_DIR == Join(WORKSPACE_ROOT, cfg.geoDir)
\* geoConfig.cssOutputDir || 'dist/css' (an absent option is the empty path)
CSS_OUTPUT_DIR ==
  Join(WORKSPACE_ROOT, IF cfg.cssOutputDir # <<>> THEN cfg.cssOutputDir ELSE <<"dist", "css">>)
\* geoConfig.geoCss ? path.join(WORKSPACE_ROOT, geoConfig.geoCss) : null
\* (null is the empty path)
GEO_CSS_PATH == cfg.geoCss
IGNORE == cfg.ignore
REPLACEMENTS == cfg.replacements

----------------------------------------------------------------------------
(* copyDir *)

\* An entry of the ignore list is held as the segments of its text split at
\* "/", so that ignoreList.includes(item) is <<item>> \in ignoreList and
\* ignoreList.includes(relativePath) is relativePath \in ignoreList.
\* A faulty variant of Ignored: only the base name is looked up.
\* C6_CopyAddsNoIgnored does not hold of it.
IgnoredByName(ignoreList, item, relativePath) == <<item>> \in ignoreList

Ignored(ignoreList, item, relativePath) ==
  <<item>> \in ignoreList \/ relativePath \in ignoreList

RECURSIVE copyDir(_, _, _, _), CopyInto(_, _, _, _), CopyItems(_, _, _, _, _),
          CopyItem(_, _, _, _), CopyRest(_, _, _, _, _)

\* one pass of the body of the for loop: the entry at srcPath
CopyItem(f, srcPath, destPath, ignoreList) ==
  IF Ignored(ignoreList, BaseName(srcPath), Relative(SRC_DIR, srcPath)) THEN Ok(f)
  ELSE IF IsDir(f, srcPath) THEN copyDir(f, srcPath, destPath, ignoreList)
  ELSE CopyFile(f, srcPath, destPath)

\* the for loop of copyDir over the entries still to visit
CopyItems(f, src, dest, ignoreList, items) ==
  IF items = <<>> THEN Ok(f)
  ELSE CopyRest(CopyItem(f, Join(src, <<Head(items)>>), Join(dest, <<Head(items)>>),
                         ignoreList),
                src, dest, ignoreList, Tail(items))

\* the loop goes on after a pass with the result r unless the pass threw
CopyRest(r, src, dest, ignoreList, items) ==
  IF r.err # "" THEN r ELSE CopyItems(r.fs, src, dest, ignoreList, items)

\* copyDir once the destination has been looked after, with the result made
CopyInto(made, src, dest, ignoreList) ==
  IF made.err # "" THEN made
  ELSE IF ~Exists(made.fs, src) THEN Fail(made.fs, "ENOENT")
  ELSE IF ~IsDir(made.fs, src) THEN Fail(made.fs, "ENOTDIR")
  ELSE CopyItems(made.fs, src, dest, ignoreList, Readdir(made.fs, src))

copyDir(f, src, dest, ignoreList) ==
  CopyInto(IF ~Exists(f, dest) THEN MkdirP(f, dest) ELSE Ok(f), src, dest, ignoreList)

----------------------------------------------------------------------------
(* generateCssContent *)

BaseCss == ".geo-root {\n    display: none;\n}\n"

\* [data, err]: the CSS text, or the error readFileSync threw
generateCssContent(f) ==
  IF GEO_CSS_PATH # <<>> /\ Exists(f, GEO_CSS_PATH)
  THEN IF ReadError(f, GEO_CSS_PATH) # ""
       THEN [data |-> "", err |-> ReadError(f, GEO_CSS_PATH)]
       ELSE [data |-> BaseCss \o "\n" \o f[GEO_CSS_PATH].data, err |-> ""]
  ELSE [data |-> BaseCss, err |-> ""]

----------------------------------------------------------------------------
(* generateFaqSchema and insertFaqSchema *)

\* what JSON.stringify writes for one character of a string
JsonChar(c) ==
  IF c = "\"" THEN "\\\""
  ELSE IF c = "\\" THEN "\\\\"
  ELSE IF c = "\n" THEN "\\n"
  ELSE IF c = "\r" THEN "\\r"
  ELSE IF c = "\t" THEN "\\t"
  ELSE IF c = "\f" THEN "\\f"
  ELSE c

RECURSIVE JsonEscape(_)
JsonEscape(s) ==
  IF Len(s) <= 1 THEN JsonChar(s)
  ELSE JsonEscape(SubSeq(s, 1, Len(s) \div 2))
         \o JsonEscape(SubSeq(s, Len(s) \div 2 + 1, Len(s)))

\* JSON.stringify of a string
JsonString(s) == "\"" \o JsonEscape(s) \o "\""

\* one element of mainEntity as JSON.stringify(schemaObject, null, 2) lays it out
QuestionJson(faq) ==
  "    {\n"
    \o "      \"@type\": \"Question\",\n"
    \o "      \"name\": " \o JsonString(faq.question) \o ",\n"
    \o "      \"acceptedAnswer\": {\n"
    \o "        \"@type\": \"Answer\",\n"
    \o "        \"text\": " \o JsonString(faq.answer) \o "\n"
    \o "      }\n"
    \o "    }"

RECURSIVE QuestionsJson(_)
QuestionsJson(faqData) ==
  IF Len(faqData) = 1 THEN QuestionJson(faqData[1])
  ELSE QuestionJson(Head(faqData)) \o ",\n" \o QuestionsJson(Tail(faqData))

\* JSON.stringify(schemaObject, null, 2)
SchemaJson(faqData) ==
  "{\n"
    \o "  \"@context\": \"https://schema.org\",\n"
    \o "  \"@type\": \"FAQPage\",\n"
    \o "  \"mainEntity\": "
    \o (IF faqData = <<>> THEN "[]" ELSE "[\n" \o QuestionsJson(faqData) \o "\n  ]")
    \o "\n}"

generateFaqSchema(faqData) ==
  "\n    <script type=\"application/ld+json\">\n      "
    \o SchemaJson(faqData)
    \o "\n    </script>"

\* the first position at or after i that holds no white space
RECURSIVE SkipWhite(_, _)
SkipWhite(s, i) == IF Ch(s, i) \in WhiteSet THEN SkipWhite(s, i + 1) ELSE i

\* the position after the literal lit when it stands at i (i # 0), else 0
After(s, i, lit) == IF i # 0 /\ StartsWithAt(s, i, lit) THEN i + Len(lit) ELSE 0

\* the position after any one character but a line terminator at i, else 0
AfterDot(s, i) == IF i # 0 /\ Ch(s, i) \notin {"", "\n", "\r"} THEN i + 1 ELSE 0

\* white space skipped from i on (i # 0), else 0
White(s, i) == IF i = 0 THEN 0 ELSE SkipWhite(s, i)

\* [^<]*<\/script> from i on: the last position of the match, else 0; lt is
\* the first "<" at or after i
FaqClose(s, lt) == IF lt # 0 /\ StartsWithAt(s, lt, "</script>") THEN lt + 8 ELSE 0

FaqTail(s, i) == IF i = 0 THEN 0 ELSE FaqClose(s, IndexFrom(s, "<", i))

\* the last position of the match of
\*   <script type="application\/ld\+json">\s*{\s*"@context":\s*"https:\/\/schema.org",
\*   \s*"@type":\s*"FAQPage"[^<]*<\/script>
\* that starts at i, 0 when there is none
FaqMatchEnd(s, i) ==
  FaqTail(s,
    After(s,
      White(s, After(s,
        White(s, After(s,
          AfterDot(s, After(s,
            White(s, After(s,
              White(s, After(s,
                White(s, After(s, i, "<script type=\"application/ld+json\">")),
                "{")),
              "\"@context\":")),
            "\"https://schema")),
          "org\",")),
        "\"@type\":")),
      "\"FAQPage\""))

\* the start of the leftmost match that starts in lo..hi, 0 when there is none
RECURSIVE FaqMatchIn(_, _, _), FaqMatchElse(_, _, _, _)
FaqMatchIn(s, lo, hi) ==
  IF lo > hi THEN 0
  ELSE IF lo = hi THEN (IF FaqMatchEnd(s, lo) # 0 THEN lo ELSE 0)
  ELSE FaqMatchElse(FaqMatchIn(s, lo, (lo + hi) \div 2), s, (lo + hi) \div 2 + 1, hi)

FaqMatchElse(left, s, lo, hi) == IF left # 0 THEN left ELSE FaqMatchIn(s, lo, hi)

\* html.replace(/<script ...FAQPage...<\/script>/g, ''), from position from
\* on; i is the start of the leftmost match at or after from
RECURSIVE RemoveFaqFrom(_, _), RemoveFaqAt(_, _, _)
RemoveFaqFrom(s, from) == RemoveFaqAt(s, from, FaqMatchIn(s, from, Len(s)))

RemoveFaqAt(s, from, i) ==
  IF i = 0 THEN From(s, from)
  ELSE SubSeq(s, from, i - 1) \o RemoveFaqFrom(s, FaqMatchEnd(s, i) + 1)

InsertAt(html, i, schema, insertBeforeTag) ==
  IF i = 0 THEN html
  ELSE Splice(html, i, i + Len(insertBeforeTag) - 1,
              schema \o "\n  " \o insertBeforeTag, <<>>)

\* html.replace(insertBeforeTag, schema + "\n  " + insertBeforeTag): the
\* pattern is a string, so its first occurrence is replaced, and the second
\* argument is a replacement string, whose $ patterns are expanded
InsertBefore(html, schema, insertBeforeTag) ==
  InsertAt(html, IndexFrom(html, insertBeforeTag, 1), schema, insertBeforeTag)

\* the text insertFaqSchema writes back to htmlPath
FaqHtml(html, schema, insertBeforeTag) ==
  InsertBefore(RemoveFaqFrom(html, 1), schema, insertBeforeTag)

insertFaqSchema(f, htmlPath, schema, insertBeforeTag) ==
  IF ReadError(f, htmlPath) # "" THEN Fail(f, ReadError(f, htmlPath))
  ELSE WriteFile(f, htmlPath, FaqHtml(f[htmlPath].data, schema, insertBeforeTag))

----------------------------------------------------------------------------
(* The steps of main *)

maxRetries == 3

\* the entries directly in dist
DistEntries(f) == Children(f, DIST_DIR)

\* the file system with the trees at the paths in gone removed
RemoveTrees(f, gone) ==
  [q \in {x \in DOMAIN f : \A p \in gone : ~IsPrefix(p, x)} |-> f[q]]

\* The file system after cleanDistDirectory(DIST_DIR) returned and
\* fs.mkdirSync(DIST_DIR, { recursive: true }) ran: a directory is emptied;
\* anything else makes readdirSync throw, which the catch of
\* cleanDistDirectory answers with rmSync; a missing dist is only created.
CleanedDist(f) ==
  MkdirP(IF IsDir(f, DIST_DIR) THEN RemoveTrees(f, DistEntries(f))
         ELSE RemoveTree(f, DIST_DIR), DIST_DIR)

\* fs.writeFileSync(geoCssPath, cssContent, 'utf8'), css being what
\* generateCssContent gave
WriteCss(f, css) ==
  IF css.err # "" THEN Fail(f, css.err)
  ELSE WriteFile(f, Join(CSS_OUTPUT_DIR, <<"geo.css">>), css.data)

\* step 2 once the CSS output directory has been looked after
CssInto(made) == IF made.err # "" THEN made ELSE WriteCss(made.fs, generateCssContent(made.fs))

\* step 2: create the CSS output directory and write geo.css
CssStep(f) == CssInto(IF ~Exists(f, CSS_OUTPUT_DIR) THEN MkdirP(f, CSS_OUTPUT_DIR) ELSE Ok(f))

\* step 3: copy the static files
CopyStep(f) == copyDir(f, SRC_DIR, DIST_DIR, IGNORE)

\* the result of one round of the loop of step 4 or of step 5:
\* [fs, err, warn], warn being the console.warn calls made
Noted(r, warn) == [fs |-> r.fs, err |-> r.err, warn |-> warn]
Quiet(r) == Noted(r, <<>>)
Warned(f, w) == Noted(Ok(f), <<w>>)

\* the end of a round of step 4: html was read, replaced is what
\* replaceRootDiv returned (it warns when it returns html unchanged)
WriteReplaced(f, targetPath, html, replaced) ==
  Noted(WriteFile(f, targetPath, injectCssLink(replaced, DefaultCssPath)),
        IF replaced = html THEN <<"Element not found">> ELSE <<>>)

\* A faulty variant of ReplaceIn: the files are read without a look whether
\* they exist. C9_MissingFilesSkipped does not hold of it.
ReplaceInUnchecked(f, targetPath, replacementPath, id) ==
  IF ReadError(f, targetPath) # "" THEN Quiet(Fail(f, ReadError(f, targetPath)))
  ELSE IF ReadError(f, replacementPath) # ""
       THEN Quiet(Fail(f, ReadError(f, replacementPath)))
  ELSE WriteReplaced(f, targetPath, f[targetPath].data,
                     replaceRootDiv(f[targetPath].data, id, f[replacementPath].data))

ReplaceIn(f, targetPath, replacementPath, id) ==
  IF ~Exists(f, targetPath) THEN Warned(f, "Target HTML file not found")
  ELSE IF ~Exists(f, replacementPath) THEN Warned(f, "Replacement file not found")
  ELSE IF ReadError(f, targetPath) # "" THEN Quiet(Fail(f, ReadError(f, targetPath)))
  ELSE IF ReadError(f, replacementPath) # ""
       THEN Quiet(Fail(f, ReadError(f, replacementPath)))
  ELSE WriteReplaced(f, targetPath, f[targetPath].data,
                     replaceRootDiv(f[targetPath].data, id, f[replacementPath].data))

\* step 4, one entry of REPLACEMENTS
ReplacementStep(f, r) ==
  ReplaceIn(f, Join(DIST_DIR, r.targetHtml), Join(GEO_DIR, r.replacementFile), r.elementId)

\* step 5: the FAQ schema. The FAQ JSON file lies outside the modelled
\* directories: faq.source tells whether it is missing, is no JSON array
\* ("invalid": JSON.parse or faqData.map throws) or parses to faq.items.
FaqInto(f, faq, targetHtmlPath) ==
  IF ~faq.enabled THEN Quiet(Ok(f))
  ELSE IF faq.source = "missing" THEN Warned(f, "FAQ JSON file not found")
  ELSE IF ~Exists(f, targetHtmlPath) THEN Warned(f, "FAQ target HTML file not found")
  ELSE IF faq.source = "invalid" THEN Quiet(Fail(f, "SyntaxError"))
  ELSE Quiet(insertFaqSchema(f, targetHtmlPath, generateFaqSchema(faq.items),
                             faq.insertBeforeTag))

FaqStep(f) == FaqInto(f, cfg.faqSchema, Join(DIST_DIR, cfg.faqSchema.targetHtml))

\* A faulty variant of Throw: the error is logged and main goes on with the
\* FAQ schema. C10_ThrowExits does not hold of it.
ThrowAndGoOn(f, code) ==
  /\ fs' = f
  /\ lastError' = code
  /\ pc' = "faq"
  /\ exitCode' = exitCode

\* the catch of main: console.error and process.exit(1)
Throw(f, code) ==
  /\ fs' = f
  /\ lastError' = code
  /\ pc' = "failed"
  /\ exitCode' = 1

\* a step ended with the result r: main goes on at next unless it threw
Proceed(r, next, code) ==
  IF r.err # "" THEN Throw(r.fs, r.err)
  ELSE /\ fs' = r.fs
       /\ lastError' = ""
       /\ pc' = next
       /\ exitCode' = code

\* One round of the retry loop in which nothing is thrown.
CleanupOk ==
  /\ pc = "cleanup"
  /\ steps' = Append(steps, "cleanup")
  /\ Proceed(CleanedDist(fs), "css", exitCode)
  /\ UNCHANGED <<cfg, delays, retryCount, replIdx, warnings, reports>>
  /\ UNCHANGED <<htmlVars, uiVars>>

\* The same without the test of retryCount against maxRetries.
CleanupBusyUnbounded ==
  /\ pc = "cleanup"
  /\ IsDir(fs, DIST_DIR)
  /\ DistEntries(fs) # {}
  /\ \E code \in {"ENOTEMPTY", "EBUSY"}, gone \in SUBSET DistEntries(fs) :
       /\ gone # DistEntries(fs)
       /\ fs' = RemoveTrees(fs, gone)
       /\ lastError' = code
  /\ retryCount' = retryCount + 1
  /\ delays' = Append(delays, 500 * (retryCount + 1))
  /\ pc' = "cleanup"
  /\ steps' = Append(steps, "cleanup")
  /\ UNCHANGED <<cfg, replIdx, exitCode, warnings, reports>>
  /\ UNCHANGED <<htmlVars, uiVars>>

\* One round of the retry loop in which cleanDistDirectory throws ENOTEMPTY
\* or EBUSY (another build works in dist) after it removed some entries;
\* main waits 500 ms times the number of failures before it goes on.
CleanupBusy ==
  /\ pc = "cleanup"
  /\ IsDir(fs, DIST_DIR)
  /\ DistEntries(fs) # {}
  /\ \E code \in {"ENOTEMPTY", "EBUSY"}, gone \in SUBSET DistEntries(fs) :
       /\ gone # DistEntries(fs)
       /\ fs' = RemoveTrees(fs, gone)
       /\ lastError' = code
  /\ retryCount' = retryCount + 1
  /\ delays' = Append(delays, 500 * (retryCount + 1))
  /\ pc' = IF retryCount + 1 >= maxRetries THEN "css" ELSE "cleanup"
  /\ steps' = Append(steps, "cleanup")
  /\ UNCHANGED <<cfg, replIdx, exitCode, warnings, reports>>
  /\ UNCHANGED <<htmlVars, uiVars>>

\* One round of the retry loop in which an error with another code leaves
\* cleanDistDirectory (its rmSync fallback fails): main throws it again.
CleanupError ==
  /\ pc = "cleanup"
  /\ Exists(fs, DIST_DIR)
  /\ Throw(fs, "EACCES")
  /\ retryCount' = retryCount + 1
  /\ steps' = Append(steps, "cleanup")
  /\ UNCHANGED <<cfg, delays, replIdx, warnings, reports>>
  /\ UNCHANGED <<htmlVars, uiVars>>

GenerateCss ==
  /\ pc = "css"
  /\ steps' = Append(steps, "css")
  /\ Proceed(CssStep(fs), "copy", exitCode)
  /\ UNCHANGED <<cfg, delays, retryCount, replIdx, warnings, reports>>
  /\ UNCHANGED <<htmlVars, uiVars>>

\* A faulty variant of CopyStatic: main goes on to the replacements before
\* anything is copied. C8_StepOrder does not hold of it.
CopyStaticSkipped ==
  /\ pc = "copy"
  /\ steps' = Append(steps, "copy")
  /\ Proceed(Ok(fs), IF REPLACEMENTS = <<>> THEN "faq" ELSE "replace", exitCode)
  /\ UNCHANGED <<cfg, delays, retryCount, replIdx, warnings, reports>>
  /\ UNCHANGED <<htmlVars, uiVars>>

CopyStatic ==
  /\ pc = "copy"
  /\ steps' = Append(steps, "copy")
  /\ Proceed(CopyStep(fs), IF REPLACEMENTS = <<>> THEN "faq" ELSE "replace", exitCode)
  /\ UNCHANGED <<cfg, delays, retryCount, replIdx, warnings, reports>>
  /\ UNCHANGED <<htmlVars, uiVars>>

\* a round of the loop of step 4 ended with the result r
Replaced(r) ==
  /\ warnings' = warnings \o r.warn
  /\ replIdx' = IF r.err # "" THEN replIdx ELSE replIdx + 1
  /\ Proceed(r, IF replIdx = Len(REPLACEMENTS) THEN "faq" ELSE "replace", exitCode)

ProcessReplacement ==
  /\ pc = "replace"
  /\ replIdx <= Len(REPLACEMENTS)
  /\ steps' = Append(steps, "replace")
  /\ Replaced(ReplacementStep(fs, REPLACEMENTS[replIdx]))
  /\ UNCHANGED <<cfg, delays, retryCount, reports>>
  /\ UNCHANGED <<htmlVars, uiVars>>

\* the console.log calls that follow step 5 when it ended with the result
\* r: the line of step 5 when the schema was inserted (neither warning was
\* given), and the line of the summary of step 6 when faqSchema is enabled
FaqReports(faq, r) ==
  IF r.err # "" \/ ~faq.enabled THEN <<>>
  ELSE (IF r.warn = <<>>
          THEN <<[step |-> 5, text |-> "FAQ Schema generated and inserted"]>>
          ELSE <<>>)
         \o <<[step |-> 6, text |-> "FAQ Schema generated and inserted"]>>

\* step 5 ended with the result r
FaqDone(r) ==
  /\ warnings' = warnings \o r.warn
  /\ reports' = reports \o FaqReports(cfg.faqSchema, r)
  /\ Proceed(r, "done", 0)

\* step 5, the summary of step 6 and the return of main
InsertFaq ==
  /\ pc = "faq"
  /\ steps' = Append(steps, "faq")
  /\ FaqDone(FaqStep(fs))
  /\ UNCHANGED <<cfg, delays, retryCount, replIdx>>
  /\ UNCHANGED <<htmlVars, uiVars>>


----------------------------------------------------------------------------
(* The React components are not mounted while a build or a string function *)
(* is checked.                                                             *)

\* useWaitlist and WaitlistField before the first render
WaitlistIdle ==
  /\ wlLoading = FALSE
  /\ wlSuccess = FALSE
  /\ wlError = <<>>
  /\ wlView = [loading |-> FALSE, success |-> FALSE, error |-> <<>>]
  /\ wlCalls = <<>>
  /\ wlSettled = <<>>
  /\ requests = <<>>
  /\ fieldValue = ""
  /\ formSubmits = 0
  /\ formError = <<>>
  /\ onSubmitProp = FALSE
  /\ onSubmitCalls = <<>>

\* CookieConsent before it is mounted, with the item cookie-consent as the
\* browser holds it
ConsentNew(item) ==
  /\ ccPhase = "new"
  /\ storage = item
  /\ storedAtMount = <<>>
  /\ hasConsent = <<>>
  /\ isVisible = FALSE
  /\ ccRender = [hasConsent |-> <<>>, isVisible |-> FALSE]
  /\ analyticsInitializedRef = FALSE
  /\ analyticsFallbackTimerRef = FALSE
  /\ bannerTimer = <<>>
  /\ fallbackTimer = <<>>
  /\ bannerCleanup = FALSE
  /\ fallbackCleanup = FALSE
  /\ analyticsCalls = <<>>
  /\ analyticsStorage = "unset"
  /\ clicked = {}
  /\ renderLagged = FALSE
  /\ now = 0

ConsentIdle == ConsentNew(<<>>)

\* HeroVideo before it is mounted
HeroIdle ==
  /\ hvPhase = "new"
  /\ currentResolution = <<>>
  /\ attemptedResolutions = {}
  /\ isLoading = TRUE
  /\ hasError = FALSE
  /\ canAutoplay = TRUE
  /\ hvRendered = [res |-> <<>>, attempted |-> {}]
  /\ hvEffectDone = TRUE
  /\ hvListeners = <<>>
  /\ loadTimeout = <<>>
  /\ media = "none"
  /\ hvAttempts = <<>>
  /\ hvLog = <<>>

UiIdle ==
  /\ WaitlistIdle
  /\ ConsentIdle
  /\ HeroIdle
----------------------------------------------------------------------------
(* The builds that are checked *)

\* the longest list of replacements in geo.json
MaxReplacements == 2

IndexHtml == "<html><head></head><body><div id=\"geo-root\"></div></body></html>"
StaleHtml == "<html><body><p>old build</p></body></html>"
GeoHtml == "<div><h1>Geo Content</h1></div>"

\* a file system from the set of its directories and the text of its files
MakeFs(dirs, files) ==
  [p \in dirs \cup DOMAIN files |-> IF p \in dirs THEN DirNode ELSE FileNode(files[p])]

\* the files of a tree given as <<path, text>> pairs
FilesOf(pairs) == [p \in {x[1] : x \in pairs} |-> (CHOOSE x \in pairs : x[1] = p)[2]]

\* what sourceDir may hold
SourceTrees ==
  { \* a page alone
    [dirs |-> {<<"landing">>},
     files |-> {<< <<"landing", "index.html">>, IndexHtml >>}],
    \* a page and a style sheet of its own named css/geo.css
    [dirs |-> {<<"landing">>, <<"landing", "css">>},
     files |-> {<< <<"landing", "index.html">>, IndexHtml >>,
                << <<"landing", "css", "geo.css">>, "body { margin: 0; }" >>}],
    \* a page among files and directories a build leaves out
    [dirs |-> {<<"landing">>, <<"landing", "node_modules">>, <<"landing", "sub">>},
     files |-> {<< <<"landing", "index.html">>, IndexHtml >>,
                << <<"landing", "package.json">>, "{}" >>,
                << <<"landing", "node_modules", "x.js">>, "x" >>,
                << <<"landing", "sub", "package.json">>, "{}" >>,
                << <<"landing", "sub", "x.js">>, "y" >>}],
    \* no page
    [dirs |-> {<<"landing">>},
     files |-> {<< <<"landing", "x.js">>, "x" >>}],
    \* sourceDir names no directory
    [dirs |-> {}, files |-> {}] }

\* what dist may hold when the build starts: nothing, or the page an
\* earlier build left
DistTrees ==
  { [dirs |-> {}, files |-> {}],
    [dirs |-> {<<"dist">>},
     files |-> {<< <<"dist", "index.html">>, StaleHtml >>}] }

\* geoDir and the extra style sheet
GeoTree ==
  [dirs |-> {<<>>, <<"geo">>, <<"build">>},
   files |-> {<< <<"geo", "index.html">>, GeoHtml >>,
              << <<"build", "extra.css">>, "h1 { color: red; }" >>}]

InitialFileSystems ==
  { MakeFs(GeoTree.dirs \cup s.dirs \cup d.dirs,
           FilesOf(GeoTree.files \cup s.files \cup d.files)) :
      s \in SourceTrees, d \in DistTrees }

\* no ignore list, and one that names a file by its base name (at every
\* depth), a directory, a nested file by its relative path and the
\* directory of the style sheets
IgnoreLists ==
  { {},
    {<<"package.json">>, <<"node_modules">>, <<"sub", "x.js">>, <<"css">>} }

\* geoCss: absent, a file, a missing file, a directory
GeoCssOptions == { <<>>, <<"build", "extra.css">>, <<"build", "none.css">>, <<"build">> }

\* an entry of replacements: the page and its geo content, a target that is
\* not in dist, a replacement file that is not in geoDir, and a replacement
\* "file" that is geoDir itself (it exists and cannot be read)
ReplacementChoices ==
  { [targetHtml |-> <<"index.html">>, elementId |-> "geo-root",
     replacementFile |-> <<"index.html">>],
    [targetHtml |-> <<"about.html">>, elementId |-> "geo-root",
     replacementFile |-> <<"index.html">>],
    [targetHtml |-> <<"index.html">>, elementId |-> "geo-root",
     replacementFile |-> <<"none.html">>],
    [targetHtml |-> <<"index.html">>, elementId |-> "geo-root",
     replacementFile |-> <<>>] }

ReplacementLists == UNION {[1..k -> ReplacementChoices] : k \in 0..MaxReplacements}

FaqItems == << [question |-> "What is it?", answer |-> "A \"pilot\"."] >>

\* FAQ entries: plain text, text with markup, text with dollar signs
PlainFaq == [question |-> "What is it?", answer |-> "A \"pilot\"."]
MarkupFaq == [question |-> "Is 1 < 2?", answer |-> "Use <b>bold</b>."]
DollarFaq == [question |-> "Price?", answer |-> "It is $$5, $& more."]

\* faqSchema: disabled; enabled with a FAQ JSON file that is missing, is no
\* JSON array, or parses to FaqItems
FaqOptions ==
  { [enabled |-> FALSE, source |-> "missing", items |-> <<>>,
     targetHtml |-> <<"index.html">>, insertBeforeTag |-> "</head>"] }
  \cup
  { [enabled |-> TRUE, source |-> src, items |-> FaqItems,
     targetHtml |-> <<"index.html">>, insertBeforeTag |-> "</head>"] :
      src \in {"missing", "invalid", "ok"} }

\* further FAQ schemas: two entries in front of another tag, an
\* insertBeforeTag the page does not hold, dollar signs in an answer
FaqVariants ==
  { [enabled |-> TRUE, source |-> "ok", items |-> <<PlainFaq, MarkupFaq>>,
     targetHtml |-> <<"index.html">>, insertBeforeTag |-> "</body>"],
    [enabled |-> TRUE, source |-> "ok", items |-> FaqItems,
     targetHtml |-> <<"index.html">>, insertBeforeTag |-> "</main>"],
    [enabled |-> TRUE, source |-> "ok", items |-> <<DollarFaq>>,
     targetHtml |-> <<"index.html">>, insertBeforeTag |-> "</head>"] }

\* the two optional features, the extra style sheet and the FAQ schema, are
\* varied one at a time
OptionalFeatures ==
  {x \in GeoCssOptions \X FaqOptions : x[1] = <<>> \/ ~x[2].enabled}

\* the further FAQ schemas go with no ignore list and at most one replacement
Configs ==
  { [sourceDir |-> <<"landing">>, geoDir |-> <<"geo">>, cssOutputDir |-> <<>>,
     geoCss |-> x[1], ignore |-> i, replacements |-> r, faqSchema |-> x[2]] :
      x \in OptionalFeatures, i \in IgnoreLists, r \in ReplacementLists }
  \cup
  { [sourceDir |-> <<"landing">>, geoDir |-> <<"geo">>, cssOutputDir |-> <<>>,
     geoCss |-> <<>>, ignore |-> {}, replacements |-> r, faqSchema |-> q] :
      q \in FaqVariants, r \in {<<>>} \cup {<<c>> : c \in ReplacementChoices} }

\* the string functions are not called while a build is checked
HtmlIdle ==
  /\ doc = "" /\ prev = "" /\ elementId = "" /\ replacement = ""
  /\ cssPath = "" /\ calls = <<>>

\* main is entered: geo.json is read and gives cfg
Init ==
  /\ HtmlIdle
  /\ UiIdle
  /\ fs \in InitialFileSystems
  /\ cfg \in Configs
  /\ pc = "cleanup"
  /\ retryCount = 0
  /\ delays = <<>>
  /\ replIdx = 1
  /\ exitCode = -1
  /\ steps = <<>>
  /\ warnings = <<>>
  /\ reports = <<>>
  /\ lastError = ""

Next ==
  \/ CleanupOk
  \/ CleanupBusy
  \/ CleanupError
  \/ GenerateCss
  \/ CopyStatic
  \/ ProcessReplacement
  \/ InsertFaq

Spec == Init /\ [][Next]_vars

----------------------------------------------------------------------------
(* The string functions called on their own *)

\* the most calls made on one string
MaxCalls == 2

\* the link injectCssLink writes by default
DefaultLink == CssLink(DefaultCssPath)

\* the placeholder of the documentation
Placeholder == "<div id=\"geo-root\"></div>"

HtmlInputs ==
  { IndexHtml,
    Placeholder,
    \* the element holds an element of its own tag name
    "<body><div class=\"x\" id=\"geo-root\"><div>a</div>b</div><p>c</p></body>",
    \* another element type, the id in single quotes
    "<main><section id='geo-root'><p>old</p></section></main>",
    \* two elements with the id
    "<div id=\"geo-root\"></div><p id=\"geo-root\">x</p>",
    \* no element with the id, no head, a header
    "<body><header>x</header></body>",
    \* a head that is opened and not closed
    "<HTML><HEAD lang=\"en\"><body><span id=\"geo-root\"></span></body>",
    \* a head that is closed in capitals
    "<html><HEAD><title>t</title></HEAD><body></body></html>",
    \* no head
    "<html lang=\"en\"><body><div id=\"geo-root\">x</div></body></html>",
    \* neither head nor html
    "<p>hello</p>",
    \* the default link is there
    "<html><head>  " \o DefaultLink \o "\n</head><body><div id=\"geo-root\"></div></body></html>" }

ReplacementInputs ==
  { GeoHtml,
    "plain text",
    "<section><p>hi</p></section>",
    "<section class=\"hero\">x</section>",
    "<section id=\"s\" class='a b'>x</section>",
    "<section class=\"hero\">x</section>\n",
    "<section data-class=\"k\">x</section>",
    "<section>a</section><section>b</section>",
    "<p>Only $1 today</p>" }

CssPathInputs == { DefaultCssPath, "./css/geo$$.css" }

\* no build runs while the string functions are checked
BuildIdle ==
  /\ fs = MakeFs({<<>>}, FilesOf({}))
  /\ cfg = [sourceDir |-> <<"landing">>, geoDir |-> <<"geo">>, cssOutputDir |-> <<>>,
            geoCss |-> <<>>, ignore |-> {}, replacements |-> <<>>,
            faqSchema |-> [enabled |-> FALSE, source |-> "missing", items |-> <<>>,
                           targetHtml |-> <<"index.html">>,
                           insertBeforeTag |-> "</head>"]]
  /\ pc = "idle"
  /\ retryCount = 0
  /\ delays = <<>>
  /\ replIdx = 1
  /\ exitCode = -1
  /\ steps = <<>>
  /\ warnings = <<>>
  /\ reports = <<>>
  /\ lastError = ""

InitHtml ==
  /\ doc \in HtmlInputs
  /\ prev = doc
  /\ elementId = "geo-root"
  /\ replacement \in ReplacementInputs
  /\ cssPath \in CssPathInputs
  /\ calls = <<>>
  /\ BuildIdle
  /\ UiIdle

\* html = replaceRootDiv(html, elementId, replacement)
CallReplaceRootDiv ==
  /\ pc = "idle"
  /\ Len(calls) < MaxCalls
  /\ prev' = doc
  /\ doc' = replaceRootDiv(doc, elementId, replacement)
  /\ calls' = Append(calls, "replaceRootDiv")
  /\ UNCHANGED <<elementId, replacement, cssPath>>
  /\ UNCHANGED <<buildVars, uiVars>>

\* html = injectCssLink(html, cssPath)
CallInjectCssLink ==
  /\ pc = "idle"
  /\ Len(calls) < MaxCalls
  /\ prev' = doc
  /\ doc' = injectCssLink(doc, cssPath)
  /\ calls' = Append(calls, "injectCssLink")
  /\ UNCHANGED <<elementId, replacement, cssPath>>
  /\ UNCHANGED <<buildVars, uiVars>>

NextHtml ==
  \/ CallReplaceRootDiv
  \/ CallInjectCssLink

SpecHtml == InitHtml /\ [][NextHtml]_vars

----------------------------------------------------------------------------
(* What the documentation says of the string functions *)

\* the last call made
LastCall == IF calls = <<>> THEN "" ELSE calls[Len(calls)]

\* the places where p occurs in s
Occurrences(s, p) == {i \in 1..Len(s) : StartsWithAt(s, i, p)}

\* the places of s where an opening tag with the name name starts
OpeningTags(s, name) ==
  {i \in 1..Len(s) :
     /\ StartsWithAt(ToLower(s), i, "<" \o name)
     /\ Ch(s, i + 1 + Len(name)) \in WhiteSet \cup {">", "/"}}

\* the places of s where a closing tag with the name name starts
ClosingTags(s, name) == Occurrences(ToLower(s), "</" \o name \o ">")

\* how many elements with the name name that start at or after from are
\* open once the tag at k is read
Depth(s, name, from, k) ==
  Cardinality({i \in OpeningTags(s, name) : from <= i /\ i <= k})
    - Cardinality({i \in ClosingTags(s, name) : from <= i /\ i <= k})

\* the place of the closing tag that ends the element whose opening tag
\* starts at from, 0 when it is not closed
MatchingClose(s, name, from) ==
  IF \E c \in ClosingTags(s, name) : c > from /\ Depth(s, name, from, c) = 0
  THEN CHOOSE c \in ClosingTags(s, name) :
         /\ c > from /\ Depth(s, name, from, c) = 0
         /\ \A d \in ClosingTags(s, name) :
              (d > from /\ Depth(s, name, from, d) = 0) => c <= d
  ELSE 0

\* the word w is one of the white-space separated words of v
HasWord(v, w) ==
  \E j \in 1..Len(v) :
    /\ StartsWithAt(v, j, w)
    /\ j = 1 \/ Ch(v, j - 1) \in WhiteSet
    /\ j + Len(w) > Len(v) \/ Ch(v, j + Len(w)) \in WhiteSet

\* the opening tag tag has a class attribute whose list holds geo-root
HasGeoClass(tag) ==
  \E i \in 1..Len(tag), q \in 1..Len(tag) :
    /\ Ch(tag, i) \in WhiteSet
    /\ StartsWithAt(tag, i + 1, "class=")
    /\ Ch(tag, i + 7) \in QuoteSet
    /\ q > i + 7
    /\ Ch(tag, q) = Ch(tag, i + 7)
    /\ \A k \in (i + 8)..(q - 1) : Ch(tag, k) # Ch(tag, i + 7)
    /\ HasWord(SubSeq(tag, i + 8, q - 1), "geo-root")

\* t is one <section> element, from its opening tag to the closing tag that
\* matches it, and its class attribute holds geo-root
IsGeoSection(t) ==
  /\ 1 \in OpeningTags(t, "section")
  /\ IndexFrom(t, ">", 1) # 0
  /\ HasGeoClass(SubSeq(t, 1, IndexFrom(t, ">", 1)))
  /\ MatchingClose(t, "section", 1) = Len(t) - 9

\* the text the last call of replaceRootDiv put in place of the first
\* element with the id
Substituted ==
  LET m == RootMatchFrom(prev, elementId, 1)
  IN  Expand(ReplacementWithClass(replacement), SubSeq(prev, m.start, m.end),
             From(prev, m.end + 1), m.groups)

\* C1: whenever replaceRootDiv finds an element with the id, what it puts in
\* its place is one outermost <section> element whose class attribute
\* holds geo-root, whatever the replacement string is.
C1_SubstitutedIsGeoSection ==
  (LastCall = "replaceRootDiv" /\ RootMatchFrom(prev, elementId, 1).ok)
    => IsGeoSection(Substituted)

\* s with the first old in it replaced by new
PutFor(s, old, new) ==
  SubSeq(s, 1, IndexFrom(s, old, 1) - 1) \o new \o From(s, IndexFrom(s, old, 1) + Len(old))

\* the documentation's example: the page holds the empty placeholder, and
\* nothing else in it names the id; the replacement is the geo content
ReadmeExample ==
  /\ LastCall = "replaceRootDiv"
  /\ replacement = GeoHtml
  /\ Includes(prev, Placeholder)
  /\ Cardinality(Occurrences(prev, elementId)) = 1

ElementStart(s) ==
  LET at == CHOOSE i \in 1..Len(s) :
              StartsWithAt(s, i, elementId) /\ Ch(s, i - 1) \in QuoteSet
  IN  CHOOSE i \in 1..at : Ch(s, i) = "<" /\ \A j \in (i + 1)..at : Ch(s, j) # "<"

\* the tag name, in small letters, of the element that starts at i
ElementName(s, i) == ToLower(SubSeq(s, i + 1, i + NameRun(s, i + 1)))

\* the last place of the element that starts at i
ElementEnd(s, i) == MatchingClose(s, ElementName(s, i), i) + Len(ElementName(s, i)) + 2

\* one element of the page holds the id, it is closed, and the replacement
\* holds no "$"
OneElement ==
  /\ LastCall = "replaceRootDiv"
  /\ Cardinality(Occurrences(prev, elementId)) = 1
  /\ RootMatchFrom(prev, elementId, 1).ok
  /\ MatchingClose(prev, ElementName(prev, ElementStart(prev)), ElementStart(prev)) # 0
  /\ ~Includes(replacement, "$")

\* C3: replaceRootDiv replaces the whole element that holds the id, from
\* its opening tag to the closing tag that matches it, also when it holds
\* elements of its own tag name; the text before and after is unchanged.
C3_WholeElementReplaced ==
  OneElement
    => doc = SubSeq(prev, 1, ElementStart(prev) - 1)
               \o ReplacementWithClass(replacement)
               \o From(prev, ElementEnd(prev, ElementStart(prev)) + 1)

\* C4: injectCssLink(h, cssPath) holds the link for cssPath, once when h
\* held none; an h that holds it comes back unchanged; and a second call
\* changes nothing.
C4_LinkOnce ==
  LastCall = "injectCssLink"
    => /\ Includes(doc, CssLink(cssPath))
       /\ ~Includes(prev, CssLink(cssPath))
            => Cardinality(Occurrences(doc, CssLink(cssPath))) = 1
       /\ Includes(prev, CssLink(cssPath)) => doc = prev
       /\ injectCssLink(doc, cssPath) = doc

\* the place where the first opening tag with the name name starts, 0 when
\* there is none
FirstTag(s, name) ==
  IF \E i \in OpeningTags(s, name) : IndexFrom(s, ">", i) # 0
  THEN CHOOSE i \in OpeningTags(s, name) :
         /\ IndexFrom(s, ">", i) # 0
         /\ \A j \in OpeningTags(s, name) : IndexFrom(s, ">", j) # 0 => i <= j
  ELSE 0

\* s with t put in after place i
PutAfter(s, i, t) == SubSeq(s, 1, i) \o t \o From(s, i + 1)

\* where the documented order of strategies puts the link
ByStrategy(s, link) ==
  IF IndexFrom(ToLower(s), "</head>", 1) # 0
  THEN PutAfter(s, IndexFrom(ToLower(s), "</head>", 1) - 1, "  " \o link \o "\n")
  ELSE IF FirstTag(s, "head") # 0
  THEN PutAfter(s, IndexFrom(s, ">", FirstTag(s, "head")), "\n  " \o link)
  ELSE IF FirstTag(s, "html") # 0
  THEN PutAfter(s, IndexFrom(s, ">", FirstTag(s, "html")),
                "\n<head>\n  " \o link \o "\n</head>")
  ELSE "<head>\n  " \o link \o "\n</head>\n" \o s

\* C5: into a page without the link, injectCssLink puts it by the first
\* strategy that applies: before the first </head>, else after the first
\* <head ...> tag, else in a new head after the first <html ...> tag, else
\* in a new head in front; the rest of the page is as it was.
C5_FirstStrategy ==
  (LastCall = "injectCssLink" /\ cssPath = DefaultCssPath /\ ~Includes(prev, DefaultLink))
    => doc = ByStrategy(prev, DefaultLink)

----------------------------------------------------------------------------
(* What the documentation says of the build *)

\* the last step executed
LastStep == IF steps = <<>> THEN "" ELSE steps[Len(steps)]

\* the entries beneath the directory dir
Beneath(f, dir) == {p \in DOMAIN f : IsPrefix(dir, p) /\ Len(p) > Len(dir)}

\* the segments of p below the directory dir
Below(dir, p) == SubSeq(p, Len(dir) + 1, Len(p))

\* the entry with the relative path rel, or a directory above it, has a
\* base name or a relative path that is in ignoreList
IgnoredPath(ignoreList, rel) ==
  \E k \in 1..Len(rel) : <<rel[k]>> \in ignoreList \/ SubSeq(rel, 1, k) \in ignoreList

\* every entry of src in f that is not ignored is in g at the same relative
\* path of dest, a file with its text
SourcePresent(f, g, src, dest, ignoreList) ==
  \A p \in Beneath(f, src) :
    ~IgnoredPath(ignoreList, Below(src, p))
      => /\ Join(dest, Below(src, p)) \in DOMAIN g
         /\ g[Join(dest, Below(src, p))] = f[p]

\* no entry of dest in g is ignored
NoIgnoredIn(g, dest, ignoreList) ==
  \A q \in Beneath(g, dest) : ~IgnoredPath(ignoreList, Below(dest, q))

\* the entries of g that f does not hold as they are lie in dest and are
\* not ignored, and g holds every entry of f
OnlyAdded(f, g, dest, ignoreList) ==
  /\ DOMAIN f \subseteq DOMAIN g
  /\ \A q \in DOMAIN g :
       (q \notin DOMAIN f \/ g[q] # f[q])
         => IsPrefix(dest, q) /\ ~IgnoredPath(ignoreList, Below(dest, q))

\* copyDir(SRC_DIR, DIST_DIR, IGNORE) returns
CopyCompletes == pc = "copy" /\ pc' # "failed"

GeoCssOut == Join(CSS_OUTPUT_DIR, <<"geo.css">>)

\* the base rule, followed by the text of the geoCss file when geoCss is
\* configured and the file exists
GeneratedCss ==
  IF GEO_CSS_PATH # <<>> /\ IsFile(fs, GEO_CSS_PATH)
  THEN BaseCss \o "\n" \o fs[GEO_CSS_PATH].data
  ELSE BaseCss

\* C7: after a successful build geo.css in the CSS output directory holds
\* the generated CSS, whatever sourceDir holds.
C7_GeneratedCssKept ==
  (pc = "done" /\ exitCode = 0)
    => IsFile(fs, GeoCssOut) /\ fs[GeoCssOut].data = GeneratedCss

\* the step b may follow the step a
MayFollow(a, b) ==
  \/ a = "cleanup" /\ b \in {"cleanup", "css"}
  \/ a = "css" /\ b = "copy"
  \/ a = "copy" /\ b = "replace"
  \/ a = "copy" /\ b = "faq" /\ REPLACEMENTS = <<>>
  \/ a = "replace" /\ b \in {"replace", "faq"}

\* the steps ran in the order cleanup, css, copy, replace, faq: none is
\* left out, css, copy and faq run once, replace once for an entry
StepsInOrder ==
  /\ steps # <<>> => steps[1] = "cleanup"
  /\ \A j \in 2..Len(steps) : MayFollow(steps[j - 1], steps[j])
  /\ Cardinality({j \in 1..Len(steps) : steps[j] = "replace"}) <= Len(REPLACEMENTS)
  /\ \A j \in 1..Len(steps) :
       steps[j] = "faq"
         => /\ j = Len(steps)
            /\ Cardinality({i \in 1..j : steps[i] = "replace"}) = Len(REPLACEMENTS)

\* the target files of the replacements and of the FAQ schema
Targets ==
  {REPLACEMENTS[i].targetHtml : i \in 1..Len(REPLACEMENTS)} \cup {cfg.faqSchema.targetHtml}

\* when the copy has returned, each target that sourceDir holds and the
\* copy does not leave out is in dist as sourceDir holds it
TargetsCopied ==
  (LastStep = "copy" /\ pc # "failed")
    => \A t \in Targets :
         (IsFile(fs, Join(SRC_DIR, t)) /\ ~IgnoredPath(IGNORE, t))
           => /\ IsFile(fs, Join(DIST_DIR, t))
              /\ fs[Join(DIST_DIR, t)].data = fs[Join(SRC_DIR, t)].data

MissingFile ==
  /\ pc = "replace"
  /\ replIdx <= Len(REPLACEMENTS)
  /\ \/ ~Exists(fs, Join(DIST_DIR, REPLACEMENTS[replIdx].targetHtml))
     \/ ~Exists(fs, Join(GEO_DIR, REPLACEMENTS[replIdx].replacementFile))

\* C9: for an entry whose target or replacement file is missing, main
\* warns, changes no file, and goes on with the next entry (or the step
\* after the last); the build does not fail.
C9_MissingFilesSkipped ==
  [][MissingFile
       => /\ fs' = fs
          /\ Len(warnings') = Len(warnings) + 1
          /\ warnings'[Len(warnings')] \in {"Target HTML file not found",
                                            "Replacement file not found"}
          /\ replIdx' = replIdx + 1
          /\ pc' = IF replIdx < Len(REPLACEMENTS) THEN "replace" ELSE "faq"
          /\ exitCode' = -1]_vars

C9_Reached ==
  /\ pc = "done"
  /\ exitCode = 0
  /\ warnings = <<"Target HTML file not found", "Replacement file not found">>
  /\ <<"dist", "index.html">> \in DOMAIN fs

\* the step that is next throws
StepThrows ==
  \/ pc = "css" /\ CssStep(fs).err # ""
  \/ pc = "copy" /\ CopyStep(fs).err # ""
  \/ pc = "replace" /\ replIdx <= Len(REPLACEMENTS)
       /\ ReplacementStep(fs, REPLACEMENTS[replIdx]).err # ""
  \/ pc = "faq" /\ FaqStep(fs).err # ""

\* C10: when a step of main throws, a cleanup error with another code than
\* ENOTEMPTY and EBUSY among them, the process exits with code 1, and no
\* step runs after that.
C10_ThrowExits ==
  [][/\ (StepThrows \/ lastError' \notin {"", "ENOTEMPTY", "EBUSY"})
          => pc' = "failed" /\ exitCode' = 1
     /\ pc # "failed"
     /\ exitCode # 1]_vars

C10_Reached ==
  /\ pc = "failed"
  /\ exitCode = 1
  /\ lastError = "ENOENT"
  /\ steps = <<"cleanup", "css", "copy">>


----------------------------------------------------------------------------
(* useWaitlist (hooks/useWaitlist.ts) and addToWaitlist                    *)
(* (lib/waitlist-service.ts)                                               *)

\* the number of submitWaitlist calls of one run
MaxSubmits == 3

\* new Error(message); a thrown value that is no Error has isError = FALSE
Error(message) == [isError |-> TRUE, message |-> message]

NotAnError == [isError |-> FALSE, message |-> "rejected"]

\* a settled promise
Fulfilled(value) == [ok |-> TRUE, value |-> value, err |-> <<>>]
Rejected(err) == [ok |-> FALSE, value |-> <<>>, err |-> <<err>>]

\* what the callable function does with one request: it returns data (<<>>
\* when the response carries none) or throws
NetOutcomes ==
  { [throws |-> FALSE, data |-> <<[success |-> TRUE, message |-> "Added"]>>, err |-> <<>>],
    [throws |-> FALSE, data |-> <<[success |-> FALSE, message |-> "Already on the list"]>>,
     err |-> <<>>],
    [throws |-> FALSE, data |-> <<>>, err |-> <<>>],
    [throws |-> TRUE, data |-> <<>>, err |-> <<Error("internal")>>],
    [throws |-> TRUE, data |-> <<>>, err |-> <<NotAnError>>] }

\* error instanceof Error ? error : new Error(text)
AsError(err, text) == IF err.isError THEN err ELSE Error(text)

\* the promise addToWaitlist(email) returns when the callable function
\* answers with net
addToWaitlist(email, net) ==
  IF email = "" THEN Rejected(Error("Email is required and must be a string"))
  ELSE IF net.throws THEN Rejected(AsError(net.err[1], "Failed to add to waitlist"))
  ELSE Fulfilled(net.data)

\* addToWaitlist sends a request for this e-mail
SendsRequest(email) == email # ""

\* the try block of submitWaitlist after the await: the value thrown, <<>>
\* when setSuccess(true) is reached
ThrownAfterAwait(response) ==
  IF ~response.ok THEN response.err
  ELSE IF response.value = <<>>
         THEN <<Error("Cannot read properties of undefined (reading 'success')")>>
  ELSE IF ~response.value[1].success THEN <<Error(response.value[1].message)>>
  ELSE <<>>

\* the catch block: the state setError receives
StoredError(err) == AsError(err, "Failed to submit email")

\* the values the hook returns when the component renders
Returned == [loading |-> wlLoading, success |-> wlSuccess, error |-> wlError]

NewCall(email, byForm) ==
  [email |-> email, byForm |-> byForm, state |-> "pending", thrown |-> <<>>]

\* submitWaitlist(email) up to its await
StartSubmit(email, byForm) ==
  /\ wlLoading' = TRUE
  /\ wlError' = <<>>
  /\ wlCalls' = Append(wlCalls, NewCall(email, byForm))
  /\ requests' = IF SendsRequest(email) THEN Append(requests, email) ELSE requests
  /\ UNCHANGED <<wlSuccess, wlSettled>>

\* a component calls submitWaitlist(email)
SubmitWaitlist ==
  /\ Len(wlCalls) < MaxSubmits
  /\ \E email \in {"", "ann@corp.io"} : StartSubmit(email, FALSE)
  /\ UNCHANGED <<wlView, fieldValue, formSubmits, formError, onSubmitProp, onSubmitCalls>>
  /\ UNCHANGED <<htmlVars, buildVars, consentVars, heroVars>>

\* onFormSubmit after await submitWaitlist(email)
AfterSubmit(call, thrown) ==
  IF ~call.byForm THEN UNCHANGED <<formError, onSubmitCalls>>
  ELSE IF thrown = <<>>
    THEN /\ onSubmitCalls' = IF onSubmitProp THEN Append(onSubmitCalls, call.email)
                             ELSE onSubmitCalls
         /\ UNCHANGED formError
  ELSE /\ formError' = <<[type |-> "server",
                          message |-> IF thrown[1].isError THEN thrown[1].message
                                      ELSE "Failed to submit email"]>>
       /\ UNCHANGED onSubmitCalls

\* submitWaitlist from its await to its end, for call i
Settled(i, thrown) ==
  /\ IF thrown = <<>>
       THEN wlSuccess' = TRUE /\ UNCHANGED wlError
       ELSE wlError' = <<StoredError(thrown[1])>> /\ UNCHANGED wlSuccess
  /\ wlLoading' = FALSE
  /\ wlCalls' = [wlCalls EXCEPT ![i].state = IF thrown = <<>> THEN "resolved" ELSE "rejected",
                                ![i].thrown = thrown]
  /\ wlSettled' = Append(wlSettled, i)
  /\ AfterSubmit(wlCalls[i], thrown)

\* the promise of addToWaitlist settles and submitWaitlist runs to its end
Settle ==
  /\ \E i \in 1..Len(wlCalls) :
       /\ wlCalls[i].state = "pending"
       /\ \E net \in NetOutcomes :
            Settled(i, ThrownAfterAwait(addToWaitlist(wlCalls[i].email, net)))
  /\ UNCHANGED <<wlView, requests, fieldValue, formSubmits, onSubmitProp>>
  /\ UNCHANGED <<htmlVars, buildVars, consentVars, heroVars>>

\* the submitWaitlist calls that are in flight
InFlight == {i \in 1..Len(wlCalls) : wlCalls[i].state = "pending"}

\* React renders the component with the current state; a call that sends no
\* request settles before the next render
RenderWaitlist ==
  /\ wlView # Returned
  /\ \A i \in InFlight : SendsRequest(wlCalls[i].email)
  /\ wlView' = Returned
  /\ UNCHANGED <<wlLoading, wlSuccess, wlError, wlCalls, wlSettled, requests,
                 fieldValue, formSubmits, formError, onSubmitProp, onSubmitCalls>>
  /\ UNCHANGED <<htmlVars, buildVars, consentVars, heroVars>>

InitHook ==
  /\ HtmlIdle
  /\ BuildIdle
  /\ ConsentIdle
  /\ HeroIdle
  /\ WaitlistIdle

NextHook ==
  \/ SubmitWaitlist
  \/ Settle
  \/ RenderWaitlist

SpecHook == InitHook /\ [][NextHook]_vars

----------------------------------------------------------------------------
(* Claims about useWaitlist                                                *)

\* the render shows the current state of the hook
Rendered == wlView = Returned

LastSettled == wlCalls[wlSettled[Len(wlSettled)]]

LastStarted == wlCalls[Len(wlCalls)]

\* C11: once a submitWaitlist call has completed, the success flag the hook
\* returns is true exactly when the call that completed last succeeded; a
\* failed submission after a successful one leaves success false.
C11_SuccessIsLatest ==
  (Rendered /\ wlSettled # <<>>) =>
    (wlView.success <=> LastSettled.state = "resolved")

\* C12: the loading flag the hook returns is true exactly while a
\* submission is in flight, also when submissions overlap: it is true as
\* long as any call has not settled, and false when all have.
C12_LoadingWhileInFlight ==
  Rendered => (wlView.loading <=> InFlight # {})

\* the error of the most recent submission: the Error it was rejected with,
\* null while it is in flight or when it succeeded
ErrorOf(call) == IF call.state = "rejected" THEN call.thrown ELSE <<>>

\* a call settles in this step
SettlesNow(i) ==
  /\ i \in 1..Len(wlCalls)
  /\ wlCalls[i].state = "pending"
  /\ wlCalls'[i].state # "pending"

\* C13: a submission that fails stores an Error in the error state and
\* rejects its promise with that same error; a new submission resets error
\* to null; so the error the hook returns is always that of the most recent
\* submission.
C13_ErrorIsLatest ==
  /\ [](Rendered /\ wlCalls # <<>> => wlView.error = ErrorOf(LastStarted))
  /\ [][ /\ \A i \in 1..Len(wlCalls) :
              SettlesNow(i) /\ wlCalls'[i].state = "rejected" =>
                /\ wlCalls'[i].thrown # <<>>
                /\ wlCalls'[i].thrown[1].isError
                /\ wlError' = wlCalls'[i].thrown
         /\ Len(wlCalls') > Len(wlCalls) => wlError' = <<>> ]_vars

----------------------------------------------------------------------------
(* WaitlistField (components/waitlist/waitlist-field.tsx)                  *)

\* the last position of the longest run of [^\s@] that starts at i, i - 1
\* when there is none
RECURSIVE ClassRun(_, _)
ClassRun(s, i) ==
  IF Ch(s, i) # "" /\ Ch(s, i) \notin WhiteSet \cup {"@"} THEN ClassRun(s, i + 1) ELSE i - 1

\* [^\s@]+\.[^\s@]+$ from position i on: the first run takes all it can
\* (up to e) and gives characters back until a "." and a rest follow
DomainPattern(s, i, e) ==
  /\ e = Len(s)
  /\ \E k \in (i + 1)..(e - 1) : Ch(s, k) = "."

\* ^[^\s@]+@ and then the domain pattern; e is the end of the first run
LocalPattern(s, e) ==
  /\ e >= 1
  /\ Ch(s, e + 1) = "@"
  /\ DomainPattern(s, e + 2, ClassRun(s, e + 2))

\* /^[^\s@]+@[^\s@]+\.[^\s@]+$/.test(email)
isValidEmail(email) == LocalPattern(email, ClassRun(email, 1))

freeDomains ==
  { "gmail.com", "yahoo.com", "hotmail.com", "outlook.com", "aol.com", "icloud.com",
    "mail.com", "gmx.com", "protonmail.com", "zoho.com", "yandex.com", "msn.com",
    "live.com", "me.com", "comcast.net", "ymail.com", "googlemail.com", "inbox.com",
    "rocketmail.com" }

\* email.split('@')[1] when the first "@" stands at a (0: there is none and
\* the element is undefined, <<>>) and the next one at b (0: none)
SecondPart(email, a, b) ==
  IF a = 0 THEN <<>>
  ELSE <<SubSeq(email, a + 1, IF b = 0 THEN Len(email) ELSE b - 1)>>

SplitAtSecond(email, a) ==
  SecondPart(email, a, IF a = 0 THEN 0 ELSE IndexFrom(email, "@", a + 1))

\* email.split('@')[1]?.toLowerCase(), <<>> for undefined
DomainOf(email) ==
  LET part == SplitAtSecond(email, IndexFrom(email, "@", 1))
  IN  IF part = <<>> THEN <<>> ELSE <<ToLower(part[1])>>

\* the same without toLowerCase()
isCompanyEmailAsTyped(email) ==
  LET part == SplitAtSecond(email, IndexFrom(email, "@", 1))
  IN  (IF part = <<>> \/ part[1] = "" THEN "" ELSE part[1]) \notin freeDomains

\* !freeDomains.includes(domain || '')
isCompanyEmail(email) ==
  LET domain == DomainOf(email)
  IN  (IF domain = <<>> \/ domain[1] = "" THEN "" ELSE domain[1]) \notin freeDomains

FieldError(type, message) == <<[type |-> type, message |-> message]>>

\* the rules given to register('email', ...): the error they give for a
\* value, <<>> when the value passes
RuleError(value) ==
  IF value = "" THEN FieldError("required", "Email is required.")
  ELSE IF ~isValidEmail(value) THEN FieldError("pattern", "Please enter a valid email address.")
  ELSE <<>>

\* the values the e-mail input holds when the form is submitted
FieldInputs ==
  { "", "ann", "ann@corp", "ann@corp.io", "ann@mail.corp.io", "ann@gmail.com",
    "ann@GMail.com", "ann@me.com.au", "a nn@corp.io", "ann@@corp.io", "ann@.io",
    "ann@corp.", "@corp.io", "ann@gmail.com@corp.io", "ann@corp.io " }

\* the input and the button are rendered and enabled
FormEnabled == ~wlView.success /\ ~wlView.loading

\* onFormSubmit(data) up to its await
onFormSubmit(email) ==
  IF ~isValidEmail(email)
    THEN /\ formError' = FieldError("pattern", "Please enter a valid email address")
         /\ UNCHANGED <<wlLoading, wlSuccess, wlError, wlCalls, wlSettled, requests>>
  ELSE IF ~isCompanyEmail(email)
    THEN /\ formError' = FieldError("pattern", "Please use your company email address")
         /\ UNCHANGED <<wlLoading, wlSuccess, wlError, wlCalls, wlSettled, requests>>
  ELSE /\ formError' = <<>>
       /\ StartSubmit(email, TRUE)

\* handleSubmit(onFormSubmit) for the value the field holds: the rules of
\* the field are checked and onFormSubmit is called when they pass
handleSubmit(value) ==
  IF RuleError(value) # <<>>
    THEN /\ formError' = RuleError(value)
         /\ UNCHANGED <<wlLoading, wlSuccess, wlError, wlCalls, wlSettled, requests>>
  ELSE onFormSubmit(value)

\* the number of submit events of one run
MaxFormSubmits == 2

\* the form is submitted with some value in the e-mail input
FormSubmit ==
  /\ FormEnabled
  /\ formSubmits < MaxFormSubmits
  /\ formSubmits' = formSubmits + 1
  /\ \E value \in FieldInputs :
       /\ fieldValue' = value
       /\ handleSubmit(value)
  /\ UNCHANGED <<wlView, onSubmitProp, onSubmitCalls>>
  /\ UNCHANGED <<htmlVars, buildVars, consentVars, heroVars>>

InitField ==
  /\ HtmlIdle
  /\ BuildIdle
  /\ ConsentIdle
  /\ HeroIdle
  /\ wlLoading = FALSE
  /\ wlSuccess = FALSE
  /\ wlError = <<>>
  /\ wlView = [loading |-> FALSE, success |-> FALSE, error |-> <<>>]
  /\ wlCalls = <<>>
  /\ wlSettled = <<>>
  /\ requests = <<>>
  /\ fieldValue = ""
  /\ formSubmits = 0
  /\ formError = <<>>
  /\ onSubmitProp \in BOOLEAN
  /\ onSubmitCalls = <<>>

NextField ==
  \/ FormSubmit
  \/ Settle
  \/ RenderWaitlist

SpecField == InitField /\ [][NextField]_vars

----------------------------------------------------------------------------
(* Claims about WaitlistField                                              *)

\* the positions of s that hold the character c
Places(s, c) == {k \in 1..Len(s) : Ch(s, k) = c}

\* the text has the format local@domain: one "@", no white space, a local
\* part, and a domain with a "." that is neither its first nor its last
\* character
HasEmailFormat(s) ==
  /\ Cardinality(Places(s, "@")) = 1
  /\ \A k \in 1..Len(s) : Ch(s, k) \notin WhiteSet
  /\ \E a \in Places(s, "@") :
       /\ a > 1
       /\ \E d \in Places(s, ".") : a + 1 < d /\ d < Len(s)

\* the domain of an address of that format is a free provider, in whatever
\* case it is written
FreeProvider(s) ==
  \E a \in Places(s, "@") : \E d \in freeDomains :
    /\ Len(s) - a = Len(d)
    /\ \A k \in 1..Len(d) : LowerCh(Ch(s, a + k)) = Ch(d, k)

Acceptable(s) == HasEmailFormat(s) /\ ~FreeProvider(s)

\* a submit event is handled in this step
SubmitsNow == formSubmits' = formSubmits + 1

\* C18: a submit of an e-mail of the format local@domain.tld whose domain is
\* no free provider (in any case) calls submitWaitlist with it and sends
\* one request; a submit of anything else sets an error on the e-mail
\* field, calls nothing and sends nothing; and onSubmit is called only when
\* a submission succeeds, with the e-mail of that submission.
C18_OnlyCompanyEmailsSubmitted ==
  /\ [][SubmitsNow =>
          IF Acceptable(fieldValue')
            THEN /\ wlCalls' = Append(wlCalls, NewCall(fieldValue', TRUE))
                 /\ requests' = Append(requests, fieldValue')
            ELSE /\ formError' # <<>>
                 /\ wlCalls' = wlCalls
                 /\ requests' = requests
                 /\ onSubmitCalls' = onSubmitCalls]_vars
  /\ [][onSubmitCalls' # onSubmitCalls =>
          \E i \in 1..Len(wlCalls) :
            /\ SettlesNow(i)
            /\ wlCalls'[i].state = "resolved"
            /\ onSubmitCalls' = Append(onSubmitCalls, wlCalls[i].email)]_vars
  /\ [](\A i \in 1..Len(requests) : Acceptable(requests[i]))

\* a company address was submitted, the submission succeeded and onSubmit
\* was called with it; then a free-provider address written in capitals was
\* refused
C18_Reached ==
  /\ onSubmitCalls = <<"ann@corp.io">>
  /\ requests = <<"ann@corp.io">>
  /\ formSubmits = 2
  /\ fieldValue = "ann@GMail.com"
  /\ formError = FieldError("pattern", "Please use your company email address")

----------------------------------------------------------------------------
(* CookieConsent (components/cookies/CookieConsent.tsx) and                *)
(* initializeAnalytics (lib/firebase-config)                               *)

\* the seconds of a run
MaxTime == 9

\* setTimeout(..., 1000) and setTimeout(..., 8000), in seconds
BannerDelay == 1
FallbackDelay == 8

\* the item cookie-consent at mount: absent, or set by an earlier visit
StoredItems == { <<>>, <<"accepted">>, <<"declined">> }

\* the state a render is made from
CurrentState == [hasConsent |-> hasConsent, isVisible |-> isVisible]

\* the render guard: what a render made from state r returns
RendersBanner(r) == ~(r.hasConsent # <<>> /\ ~r.isVisible)

\* analytics_storage as setConsent sets it
ConsentSetting(consent) == IF consent THEN "granted" ELSE "denied"

\* initializeAnalytics(consent); getAnalytics may throw, and then the error
\* is logged and setConsent is not reached
initializeAnalytics(consent) ==
  /\ analyticsCalls' = Append(analyticsCalls, consent)
  /\ \E thrown \in BOOLEAN :
       analyticsStorage' = IF thrown THEN analyticsStorage ELSE ConsentSetting(consent)

\* the body of the fallback effect, run by a render made with hasConsent =
\* seen while the ref holds initialized; pending is the 8 s timer after the
\* cleanup of the effect's last run
FallbackEffect(seen, initialized, pending) ==
  IF seen # <<>> \/ initialized
    THEN /\ fallbackTimer' = pending
         /\ fallbackCleanup' = FALSE
         /\ UNCHANGED analyticsFallbackTimerRef
    ELSE /\ fallbackTimer' = <<now + FallbackDelay>>
         /\ fallbackCleanup' = TRUE
         /\ analyticsFallbackTimerRef' = TRUE

\* the cleanup function of the fallback effect: the 8 s timer after it
FallbackCleared ==
  IF fallbackCleanup /\ analyticsFallbackTimerRef THEN <<>> ELSE fallbackTimer

\* the component is mounted: the first render and the two effects
Mount ==
  /\ ccPhase = "new"
  /\ ccPhase' = "mounted"
  /\ ccRender' = CurrentState
  /\ storedAtMount' = storage
  /\ hasConsent' = <<storage = <<"accepted">>>>
  /\ IF storage # <<"accepted">>
       THEN /\ bannerTimer' = <<now + BannerDelay>>
            /\ bannerCleanup' = TRUE
            /\ UNCHANGED <<analyticsCalls, analyticsStorage, analyticsInitializedRef>>
       ELSE /\ initializeAnalytics(TRUE)
            /\ analyticsInitializedRef' = TRUE
            /\ UNCHANGED <<bannerTimer, bannerCleanup>>
  /\ FallbackEffect(hasConsent, storage = <<"accepted">>, fallbackTimer)
  /\ UNCHANGED <<storage, isVisible, clicked, renderLagged, now>>
  /\ UNCHANGED <<htmlVars, buildVars, waitlistVars, heroVars>>

\* React renders the component again after a state change; the fallback
\* effect is cleaned up and run again when hasConsent changed
Rerender ==
  /\ ccPhase = "mounted"
  /\ ccRender # CurrentState
  /\ ccRender' = CurrentState
  /\ IF ccRender.hasConsent # hasConsent
       THEN FallbackEffect(hasConsent, analyticsInitializedRef, FallbackCleared)
       ELSE UNCHANGED <<fallbackTimer, fallbackCleanup, analyticsFallbackTimerRef>>
  /\ UNCHANGED <<ccPhase, storage, storedAtMount, hasConsent, isVisible,
                 analyticsInitializedRef, bannerTimer, bannerCleanup, analyticsCalls,
                 analyticsStorage, clicked, renderLagged, now>>
  /\ UNCHANGED <<htmlVars, buildVars, waitlistVars, heroVars>>

Due(timer) == timer # <<>> /\ timer[1] <= now

\* the 1 s timer fires
BannerTimerFires ==
  /\ Due(bannerTimer)
  /\ bannerTimer' = <<>>
  /\ isVisible' = TRUE
  /\ UNCHANGED <<ccPhase, storage, storedAtMount, hasConsent, ccRender,
                 analyticsInitializedRef, analyticsFallbackTimerRef, fallbackTimer,
                 bannerCleanup, fallbackCleanup, analyticsCalls, analyticsStorage,
                 clicked, renderLagged, now>>
  /\ UNCHANGED <<htmlVars, buildVars, waitlistVars, heroVars>>

\* the 8 s timer fires
FallbackTimerFires ==
  /\ Due(fallbackTimer)
  /\ fallbackTimer' = <<>>
  /\ IF ~analyticsInitializedRef
       THEN /\ initializeAnalytics(FALSE)
            /\ analyticsInitializedRef' = TRUE
       ELSE UNCHANGED <<analyticsCalls, analyticsStorage, analyticsInitializedRef>>
  /\ UNCHANGED <<ccPhase, storage, storedAtMount, hasConsent, isVisible, ccRender,
                 analyticsFallbackTimerRef, bannerTimer, bannerCleanup, fallbackCleanup,
                 clicked, renderLagged, now>>
  /\ UNCHANGED <<htmlVars, buildVars, waitlistVars, heroVars>>

\* the same without the test of the ref
ClickUnguarded(button, item, consent, granted) ==
  /\ clicked' = clicked \cup {button}
  /\ storage' = <<item>>
  /\ hasConsent' = <<consent>>
  /\ isVisible' = FALSE
  /\ fallbackTimer' = IF analyticsFallbackTimerRef THEN <<>> ELSE fallbackTimer
  /\ initializeAnalytics(granted)
  /\ analyticsInitializedRef' = TRUE
  /\ UNCHANGED <<ccPhase, storedAtMount, ccRender, analyticsFallbackTimerRef,
                 bannerTimer, bannerCleanup, fallbackCleanup, renderLagged, now>>
  /\ UNCHANGED <<htmlVars, buildVars, waitlistVars, heroVars>>

\* a button of the banner is clicked: item is stored, hasConsent becomes
\* consent and analytics are initialized with granted
Click(button, item, consent, granted) ==
  /\ clicked' = clicked \cup {button}
  /\ storage' = <<item>>
  /\ hasConsent' = <<consent>>
  /\ isVisible' = FALSE
  /\ fallbackTimer' = IF analyticsFallbackTimerRef THEN <<>> ELSE fallbackTimer
  /\ IF ~analyticsInitializedRef
       THEN /\ initializeAnalytics(granted)
            /\ analyticsInitializedRef' = TRUE
       ELSE UNCHANGED <<analyticsCalls, analyticsStorage, analyticsInitializedRef>>
  /\ UNCHANGED <<ccPhase, storedAtMount, ccRender, analyticsFallbackTimerRef,
                 bannerTimer, bannerCleanup, fallbackCleanup, renderLagged, now>>
  /\ UNCHANGED <<htmlVars, buildVars, waitlistVars, heroVars>>

\* the buttons are in the document
BannerInDocument == ccPhase = "mounted" /\ RendersBanner(ccRender)

\* Accept is clicked
handleAccept ==
  /\ BannerInDocument
  /\ Click("accept", "accepted", TRUE, TRUE)

\* Decline that initializes analytics as Accept does
DeclineGranting ==
  /\ BannerInDocument
  /\ Click("decline", "declined", FALSE, TRUE)

\* Decline is clicked
handleDecline ==
  /\ BannerInDocument
  /\ Click("decline", "declined", FALSE, FALSE)

\* the component is unmounted: the cleanup functions of both effects run
Unmount ==
  /\ ccPhase = "mounted"
  /\ ccPhase' = "unmounted"
  /\ bannerTimer' = IF bannerCleanup THEN <<>> ELSE bannerTimer
  /\ fallbackTimer' = FallbackCleared
  /\ UNCHANGED <<storage, storedAtMount, hasConsent, isVisible, ccRender,
                 analyticsInitializedRef, analyticsFallbackTimerRef, bannerCleanup,
                 fallbackCleanup, analyticsCalls, analyticsStorage, clicked, renderLagged, now>>
  /\ UNCHANGED <<htmlVars, buildVars, waitlistVars, heroVars>>

\* a second passes; a timer that is due fires before the next second
Tick ==
  /\ ccPhase = "mounted"
  /\ now < MaxTime
  /\ ~Due(bannerTimer)
  /\ ~Due(fallbackTimer)
  /\ now' = now + 1
  /\ renderLagged' = (renderLagged \/ ccRender # CurrentState)
  /\ UNCHANGED <<ccPhase, storage, storedAtMount, hasConsent, isVisible, ccRender,
                 analyticsInitializedRef, analyticsFallbackTimerRef, bannerTimer,
                 fallbackTimer, bannerCleanup, fallbackCleanup, analyticsCalls,
                 analyticsStorage, clicked>>
  /\ UNCHANGED <<htmlVars, buildVars, waitlistVars, heroVars>>

InitConsent ==
  /\ HtmlIdle
  /\ BuildIdle
  /\ WaitlistIdle
  /\ HeroIdle
  /\ \E item \in StoredItems : ConsentNew(item)

NextConsent ==
  \/ Mount
  \/ Rerender
  \/ BannerTimerFires
  \/ FallbackTimerFires
  \/ handleAccept
  \/ handleDecline
  \/ Unmount
  \/ Tick

SpecConsent == InitConsent /\ [][NextConsent]_vars

----------------------------------------------------------------------------
(* Claims about CookieConsent                                              *)

\* nothing the component has scheduled is outstanding: no timer is due and
\* the last render shows the current state
Settled_cc == ccRender = CurrentState /\ ~Due(bannerTimer) /\ ~Due(fallbackTimer)

\* C14: when no 'accepted' consent is stored at mount and the user clicks
\* neither button, analytics are initialized with consent denied once 8
\* seconds have passed since mount (stated for the runs in which React
\* renders without delay).
C14_FallbackInitializes ==
  ( /\ ccPhase = "mounted"
    /\ ~renderLagged
    /\ storedAtMount # <<"accepted">>
    /\ clicked = {}
    /\ now >= FallbackDelay
    /\ Settled_cc ) => analyticsCalls = <<FALSE>>

\* C15: initializeAnalytics is called at most once while the component is
\* mounted, whatever the order of the mount effect, the fallback timer,
\* Accept and Decline.
C15_InitializedOnce == Len(analyticsCalls) <= 1

\* the fallback timer fired before the banner could be used, and Accept,
\* clicked afterwards, did not initialize analytics a second time
C15_Reached ==
  /\ analyticsCalls = <<FALSE>>
  /\ clicked = {"accept"}
  /\ storage = <<"accepted">>

\* C16: analytics are initialized with consent granted only if Accept was
\* clicked during this mount or cookie-consent = 'accepted' was stored at
\* mount; Decline, the fallback timer and a stored 'declined' never grant.
C16_GrantedOnlyOnAccept ==
  ( \/ \E i \in 1..Len(analyticsCalls) : analyticsCalls[i]
    \/ analyticsStorage = "granted" ) =>
      ("accept" \in clicked \/ storedAtMount = <<"accepted">>)

\* 'declined' was stored at mount, the banner was shown after a second,
\* Accept was clicked and analytics were initialized with consent granted
C16_Reached ==
  /\ storedAtMount = <<"declined">>
  /\ ccPhase = "mounted"
  /\ ~renderLagged
  /\ bannerTimer = <<>>
  /\ ~isVisible
  /\ clicked = {"accept"}
  /\ analyticsCalls = <<TRUE>>
  /\ analyticsStorage = "granted"

\* C17: with cookie-consent = 'accepted' stored at mount no render returns
\* the banner and the banner never becomes visible; and once Accept or
\* Decline is clicked the banner is hidden and not shown again during that
\* mount.
C17_NoBannerAfterConsent ==
  /\ (ccPhase = "mounted" /\ storedAtMount = <<"accepted">>) =>
       (~RendersBanner(ccRender) /\ ~isVisible)
  /\ (ccPhase = "mounted" /\ clicked # {} /\ ccRender = CurrentState) =>
       (~RendersBanner(ccRender) /\ ~isVisible)

----------------------------------------------------------------------------
(* HeroVideo (components/hero/hero-video.tsx)                              *)

videoResolutions ==
  << [src |-> "./assets/waitlist/aviator-waitlist-video-1080p.mp4", label |-> "1080p",
      width |-> 1920, height |-> 1080, priority |-> 2],
     [src |-> "./assets/waitlist/aviator-waitlist-video-720p.mp4", label |-> "720p",
      width |-> 1280, height |-> 720, priority |-> 1] >>

\* videoResolutions.find(v => v.label === '1080p')
getInitialResolution ==
  videoResolutions[CHOOSE i \in 1..Len(videoResolutions) :
                     /\ videoResolutions[i].label = "1080p"
                     /\ \A j \in 1..(i - 1) : videoResolutions[j].label # "1080p"]

\* any other resolution, whatever its priority and whether attempted or not
AnyOtherResolution(current, attempted) ==
  {videoResolutions[i] : i \in {j \in 1..Len(videoResolutions) :
                                  videoResolutions[j].src # current.src}}

\* videoResolutions.filter(v => v.priority < currentResolution.priority &&
\* !attemptedResolutions.has(v.src))
LowerResolutions(current, attempted) ==
  {videoResolutions[i] : i \in {j \in 1..Len(videoResolutions) :
                                  /\ videoResolutions[j].priority < current.priority
                                  /\ videoResolutions[j].src \notin attempted}}

\* .sort((a, b) => b.priority - a.priority)[0]: <<>> for undefined
HighestOf(found) ==
  IF found = {} THEN <<>>
  ELSE <<CHOOSE v \in found : \A w \in found : w.priority <= v.priority>>

\* tryNextResolution() as the handlers of the render c call it
tryNextResolution(c, log) ==
  LET nextResolution == HighestOf(LowerResolutions(c.res[1], c.attempted))
  IN  IF c.res = <<>>
        THEN /\ hvLog' = log
             /\ UNCHANGED <<currentResolution, attemptedResolutions, isLoading, hasError>>
      ELSE IF nextResolution # <<>>
        THEN /\ hvLog' = Append(log, <<"falling back", c.res[1].label,
                                       nextResolution[1].label>>)
             /\ currentResolution' = nextResolution
             /\ attemptedResolutions' = attemptedResolutions \cup {c.res[1].src}
             /\ isLoading' = TRUE
             /\ hasError' = FALSE
      ELSE /\ hvLog' = Append(log, <<"all failed">>)
           /\ hasError' = TRUE
           /\ isLoading' = FALSE
           /\ UNCHANGED <<currentResolution, attemptedResolutions>>

\* the state a render is made from, as its handlers see it
HeroState == [res |-> currentResolution, attempted |-> attemptedResolutions]

\* the handlers of the last committed render listen on the video element
\* that is in the document
Listening == hvEffectDone /\ hvListeners # <<>>

\* the component is mounted: the first render shows the placeholder, the
\* first effect selects the initial resolution and the second effect finds
\* no video element
MountHero ==
  /\ hvPhase = "new"
  /\ hvPhase' = "mounted"
  /\ currentResolution' = <<getInitialResolution>>
  /\ hvLog' = Append(hvLog, <<"starting", getInitialResolution.label>>)
  /\ UNCHANGED <<attemptedResolutions, isLoading, hasError, canAutoplay, hvRendered,
                 hvEffectDone, hvListeners, loadTimeout, media, hvAttempts>>
  /\ UNCHANGED <<htmlVars, buildVars, waitlistVars, consentVars>>

\* React commits a render with another currentResolution: a new video
\* element (key = src) replaces the old one and starts to load
CommitHero ==
  /\ hvPhase = "mounted"
  /\ hvEffectDone
  /\ hvRendered.res # currentResolution
  /\ hvRendered' = HeroState
  /\ hvEffectDone' = FALSE
  /\ media' = "inserted"
  /\ hvAttempts' = Append(hvAttempts, currentResolution[1].label)
  /\ UNCHANGED <<hvPhase, currentResolution, attemptedResolutions, isLoading, hasError,
                 canAutoplay, hvListeners, loadTimeout, hvLog>>
  /\ UNCHANGED <<htmlVars, buildVars, waitlistVars, consentVars>>

\* the effect with the dependency [currentResolution] runs: the cleanup of
\* its last run, then the listeners of this render on the new element
SetupVideo ==
  /\ hvPhase = "mounted"
  /\ ~hvEffectDone
  /\ hvEffectDone' = TRUE
  /\ loadTimeout' = IF hvListeners # <<>> THEN <<>> ELSE loadTimeout
  /\ hvListeners' = <<hvRendered>>
  /\ UNCHANGED <<hvPhase, currentResolution, attemptedResolutions, isLoading, hasError,
                 canAutoplay, hvRendered, media, hvAttempts, hvLog>>
  /\ UNCHANGED <<htmlVars, buildVars, waitlistVars, consentVars>>

\* video.play() is rejected
AutoplayFails ==
  /\ hvPhase = "mounted"
  /\ Listening
  /\ canAutoplay
  /\ canAutoplay' = FALSE
  /\ UNCHANGED <<hvPhase, currentResolution, attemptedResolutions, isLoading, hasError,
                 hvRendered, hvEffectDone, hvListeners, loadTimeout, media, hvAttempts,
                 hvLog>>
  /\ UNCHANGED <<htmlVars, buildVars, waitlistVars, consentVars>>

\* the video element fires loadstart; handleLoadStart runs when the
\* listeners are on the element already
handleLoadStart ==
  /\ hvPhase = "mounted"
  /\ media = "inserted"
  /\ media' = "loading"
  /\ IF Listening
       THEN /\ isLoading' = TRUE
            /\ hasError' = FALSE
            /\ loadTimeout' = hvListeners
       ELSE UNCHANGED <<isLoading, hasError, loadTimeout>>
  /\ UNCHANGED <<hvPhase, currentResolution, attemptedResolutions, canAutoplay,
                 hvRendered, hvEffectDone, hvListeners, hvAttempts, hvLog>>
  /\ UNCHANGED <<htmlVars, buildVars, waitlistVars, consentVars>>

\* handleLoadedMetadata, handleLoadedData and handleCanPlay: the element has
\* loaded from stage from to stage to
Loaded(from, to) ==
  /\ hvPhase = "mounted"
  /\ media = from
  /\ media' = to
  /\ IF Listening
       THEN /\ loadTimeout' = <<>>
            /\ isLoading' = FALSE
       ELSE UNCHANGED <<loadTimeout, isLoading>>
  /\ UNCHANGED <<hvPhase, currentResolution, attemptedResolutions, hasError,
                 canAutoplay, hvRendered, hvEffectDone, hvListeners, hvAttempts, hvLog>>
  /\ UNCHANGED <<htmlVars, buildVars, waitlistVars, consentVars>>

handleLoadedMetadata ==
  /\ media = "loading"
  /\ Loaded("loading", "metadata")

handleLoadedData ==
  /\ media = "metadata"
  /\ Loaded("metadata", "data")

handleCanPlay ==
  /\ media = "data"
  /\ Loaded("data", "canplay")

\* the video element fires error
handleError ==
  /\ hvPhase = "mounted"
  /\ media \in {"loading", "metadata", "data", "canplay"}
  /\ media' = "error"
  /\ IF Listening
       THEN /\ loadTimeout' = <<>>
            /\ tryNextResolution(hvListeners[1],
                 Append(hvLog, <<"error", hvListeners[1].res[1].label>>))
       ELSE UNCHANGED <<loadTimeout, currentResolution, attemptedResolutions, isLoading,
                        hasError, hvLog>>
  /\ UNCHANGED <<hvPhase, canAutoplay, hvRendered, hvEffectDone, hvListeners, hvAttempts>>
  /\ UNCHANGED <<htmlVars, buildVars, waitlistVars, consentVars>>

\* the 1 s timer fires
handleLoadTimeout ==
  /\ loadTimeout # <<>>
  /\ loadTimeout' = <<>>
  /\ tryNextResolution(loadTimeout[1],
       Append(hvLog, <<"timeout", loadTimeout[1].res[1].label>>))
  /\ UNCHANGED <<hvPhase, canAutoplay, hvRendered, hvEffectDone, hvListeners, media,
                 hvAttempts>>
  /\ UNCHANGED <<htmlVars, buildVars, waitlistVars, consentVars>>

\* the component is unmounted: the cleanup of the effect clears the timer
\* and removes the listeners
UnmountHero ==
  /\ hvPhase = "mounted"
  /\ hvPhase' = "unmounted"
  /\ loadTimeout' = IF hvListeners # <<>> THEN <<>> ELSE loadTimeout
  /\ hvListeners' = <<>>
  /\ media' = "none"
  /\ UNCHANGED <<currentResolution, attemptedResolutions, isLoading, hasError,
                 canAutoplay, hvRendered, hvEffectDone, hvAttempts, hvLog>>
  /\ UNCHANGED <<htmlVars, buildVars, waitlistVars, consentVars>>

InitHero ==
  /\ HtmlIdle
  /\ BuildIdle
  /\ WaitlistIdle
  /\ ConsentIdle
  /\ HeroIdle

NextHero ==
  \/ MountHero
  \/ CommitHero
  \/ SetupVideo
  \/ AutoplayFails
  \/ handleLoadStart
  \/ handleLoadedMetadata
  \/ handleLoadedData
  \/ handleCanPlay
  \/ handleError
  \/ handleLoadTimeout
  \/ UnmountHero

SpecHero == InitHero /\ [][NextHero]_vars

----------------------------------------------------------------------------
(* Claims about HeroVideo                                                  *)

\* the label of the resolution in the state, "" for null
LabelOf(resolution) == IF resolution = <<>> THEN "" ELSE resolution[1].label

\* handleError or handleLoadTimeout runs in this step for the resolution
\* with this label
FailureHandled(label) ==
  /\ Len(hvLog') > Len(hvLog)
  /\ hvLog'[Len(hvLog) + 1] \in {<<"error", label>>, <<"timeout", label>>}

AllFailed == \E i \in 1..Len(hvLog) : hvLog[i] = <<"all failed">>

----------------------------------------------------------------------------
(* Claims about the cleanup loop of main                                   *)

\* the number of rounds of the cleanup loop so far
CleanupRounds == Cardinality({i \in 1..Len(steps) : steps[i] = "cleanup"})

BusyCodes == {"ENOTEMPTY", "EBUSY"}

\* the entries another build's files can be found under
Leftovers(f) == {p \in DOMAIN f : IsPrefix(DIST_DIR, p) /\ p # DIST_DIR}

\* C20: the cleanup loop makes at most 3 attempts; an attempt that fails
\* with ENOTEMPTY or EBUSY is followed by a wait that grows with every
\* failure and then by another attempt, the third such failure by the rest
\* of the build with the files that are left; when the loop is left without
\* a throw dist is a directory; and after an attempt that succeeded dist is
\* empty when CSS generation starts.
C20_CleanupTerminates ==
  /\ [](CleanupRounds <= 3 /\ retryCount <= 3)
  /\ [][(pc = "cleanup" /\ pc' = "cleanup") =>
          /\ lastError' \in BusyCodes
          /\ retryCount' = retryCount + 1
          /\ retryCount' < 3
          /\ Len(delays') = Len(delays) + 1
          /\ delays'[Len(delays')] > 0
          /\ \A i \in 1..Len(delays) : delays[i] < delays'[Len(delays')]]_vars
  /\ [][(pc = "cleanup" /\ pc' = "css") =>
          /\ IsDir(fs', DIST_DIR)
          /\ \/ lastError' = "" /\ Leftovers(fs') = {} /\ retryCount' = retryCount
             \/ /\ lastError' \in BusyCodes
                /\ retryCount' = 3
                /\ Leftovers(fs') # {}
                /\ \A p \in Leftovers(fs') : p \in DOMAIN fs /\ fs'[p] = fs[p]]_vars
  /\ [][(pc = "cleanup" /\ pc' = "failed") =>
          lastError' \notin BusyCodes /\ exitCode' = 1]_vars

\* the third attempt failed as the two before it, and the build goes on
\* with what is left in dist
C20_Reached ==
  /\ pc = "css"
  /\ steps = <<"cleanup", "cleanup", "cleanup">>
  /\ retryCount = 3
  /\ delays = <<500, 1000, 1500>>
  /\ lastError = "EBUSY"
  /\ Leftovers(fs) # {}
----------------------------------------------------------------------------
(* insertFaqSchema called on its own *)

\* the most calls of insertFaqSchema made on one file
MaxFaqCalls == 2

\* what the FAQ JSON file parses to
FaqInputs ==
  { <<>>, <<PlainFaq>>, <<MarkupFaq>>, <<DollarFaq>>, <<PlainFaq, MarkupFaq>> }

TagInputs == {"</head>", "</body>"}

\* a page that holds a JSON-LD script of another type
OrgHtml ==
  "<html><head><script type=\"application/ld+json\">"
    \o "{\"@context\": \"https://schema.org\", \"@type\": \"Organization\"}"
    \o "</script></head><body></body></html>"

FaqDocs == {IndexHtml, StaleHtml, OrgHtml}

InitFaq ==
  /\ doc \in FaqDocs
  /\ prev = doc
  /\ elementId = ""
  /\ replacement = ""
  /\ cssPath = ""
  /\ calls = <<>>
  /\ BuildIdle
  /\ UiIdle

\* insertFaqSchema(htmlPath, generateFaqSchema(faqJsonPath), insertBeforeTag),
\* doc being the text of the file at htmlPath
CallInsertFaqSchema ==
  /\ pc = "idle"
  /\ Len(calls) < MaxFaqCalls
  /\ \E faqData \in FaqInputs, insertBeforeTag \in TagInputs :
       /\ doc' = FaqHtml(doc, generateFaqSchema(faqData), insertBeforeTag)
       /\ calls' = Append(calls, [fn |-> "insertFaqSchema", faqData |-> faqData,
                                  insertBeforeTag |-> insertBeforeTag])
  /\ prev' = doc
  /\ UNCHANGED <<elementId, replacement, cssPath>>
  /\ UNCHANGED <<buildVars, uiVars>>

NextFaq == CallInsertFaqSchema

SpecFaq == InitFaq /\ [][NextFaq]_vars

----------------------------------------------------------------------------
(* What the documentation says of insertFaqSchema *)

JsonLdOpen == "<script type=\"application/ld+json\">"

\* the text of the script that opens at i: what stands between the opening
\* tag and the next closing tag
ScriptText(s, i, close) ==
  SubSeq(s, i + Len(JsonLdOpen), (IF close = 0 THEN Len(s) + 1 ELSE close) - 1)

ScriptAt(s, i) == ScriptText(s, i, IndexFrom(s, "</script>", i))

\* the places of s where a JSON-LD script of the type FAQPage opens
FaqScripts(s) ==
  {i \in Occurrences(s, JsonLdOpen) : Includes(ScriptAt(s, i), "\"@type\": \"FAQPage\"")}

\* the last call of insertFaqSchema
LastFaqCall == calls[Len(calls)]

\* C21: after insertFaqSchema has been applied to a file that contains
\* insertBeforeTag, the file holds exactly one FAQPage JSON-LD script, also
\* after repeated calls and whatever the FAQ texts are
C21_OneFaqScript ==
  (calls # <<>> /\ Includes(prev, LastFaqCall.insertBeforeTag))
    => Cardinality(FaqScripts(doc)) = 1

----------------------------------------------------------------------------
(* What the documentation says of the FAQ schema of a build *)

\* the page the FAQ schema goes into
FaqTarget == Join(DIST_DIR, cfg.faqSchema.targetHtml)

\* main reported that the FAQ schema was generated and inserted
FaqReported ==
  \E i \in 1..Len(reports) : reports[i].text = "FAQ Schema generated and inserted"

\* the places of s where a Question entry of a schema starts
QuestionEntries(s) == Occurrences(s, "\"@type\": \"Question\"")

\* the "name" lines of the entries faqData in s, in the order of faqData
RECURSIVE NamesInOrder(_, _, _)
NamesInOrder(s, faqData, from) ==
  \/ faqData = <<>>
  \/ /\ IndexFrom(s, "\"name\": " \o JsonString(Head(faqData).question), from) # 0
     /\ NamesInOrder(s, Tail(faqData),
          IndexFrom(s, "\"name\": " \o JsonString(Head(faqData).question), from) + 1)

\* html holds the script generated from faqData right in front of tag (the
\* line break and the indentation insertFaqSchema writes stand between them)
SchemaInPlace(html, faqData, tag) ==
  /\ Includes(html, generateFaqSchema(faqData) \o "\n  " \o tag)
  /\ Cardinality(QuestionEntries(html)) = Len(faqData)
  /\ NamesInOrder(html, faqData, 1)

\* C22: whenever main has reported 'FAQ Schema generated and inserted'
\* (faqSchema enabled, the FAQ JSON file and the target HTML both exist), the
\* target HTML in dist holds the generated FAQPage script, with one Question
\* entry per FAQ item in input order, right in front of insertBeforeTag
C22_ReportedSchemaInPlace ==
  ( /\ pc = "done"
    /\ cfg.faqSchema.enabled
    /\ cfg.faqSchema.source # "missing"
    /\ IsFile(fs, FaqTarget)
    /\ FaqReported )
    => SchemaInPlace(fs[FaqTarget].data, cfg.faqSchema.items,
                     cfg.faqSchema.insertBeforeTag)

====
